---- MODULE Spec2Model ----
(***************************************************************************)
(* Model of the incident-text to MDX converter (app/api/convert/route.ts,  *)
(* latest revision) with its collaborators lib/mdx/tagger.ts and           *)
(* lib/mdx/validator.ts.                                                   *)
(*                                                                         *)
(* A JavaScript string is a sequence of one-character strings, so that     *)
(* trim, split, startsWith and the regular expressions of the source are   *)
(* computed character by character.  "\n" and "\t" are characters.         *)
(***************************************************************************)
EXTENDS Integers, Sequences, FiniteSets, TLC

(***************************************************************************)
(* Characters and the string primitives of the source                      *)
(***************************************************************************)
UpperChars == <<"A","B","C","D","E","F","G","H","I","J","K","L","M","N","O","P","Q","R","S","T","U","V","W","X","Y","Z">>

LowerChars == <<"a","b","c","d","e","f","g","h","i","j","k","l","m","n","o","p","q","r","s","t","u","v","w","x","y","z">>

Upper == {UpperChars[i] : i \in 1..26}

Lower == {LowerChars[i] : i \in 1..26}

Digit == {"0","1","2","3","4","5","6","7","8","9"}

\* the grave accent character (U+0060), which a TLA+ string cannot hold
Backtick == "GRAVE"

\* the bullet character (U+2022), kept as one character of a string
BulletDot == "BULLET"

\* the fullwidth colon (U+FF1A), kept as one character of a string
FullwidthColon == "FWCOLON"

\* \s of the regular expressions and the characters String.trim removes
Ws == {" ", "\t", "\n", "\r"}

\* \w of the regular expressions
WordChar == Upper \cup Lower \cup Digit \cup {"_"}

ToLowerChar(c) ==
  IF c \in Upper THEN LowerChars[CHOOSE i \in 1..26 : UpperChars[i] = c] ELSE c

ToLowerCase(s) == [i \in 1..Len(s) |-> ToLowerChar(s[i])]

MinOf(S) == CHOOSE m \in S : \A n \in S : m <= n

MaxOf(S) == CHOOSE m \in S : \A n \in S : m >= n

\* length of the longest prefix of s made of characters of set C
LeadingCount(s, C) ==
  CHOOSE k \in 0..Len(s) :
    (k = Len(s) \/ s[k + 1] \notin C) /\ \A j \in 1..k : s[j] \in C

\* length of the longest suffix of s made of characters of set C
TrailingCount(s, C) ==
  CHOOSE k \in 0..Len(s) :
    (k = Len(s) \/ s[Len(s) - k] \notin C) /\ \A j \in 1..k : s[Len(s) - j + 1] \in C

Trim(s) ==
  IF LeadingCount(s, Ws) = Len(s) THEN <<>>
  ELSE SubSeq(s, LeadingCount(s, Ws) + 1, Len(s) - TrailingCount(s, Ws))

StartsWith(s, p) == Len(s) >= Len(p) /\ SubSeq(s, 1, Len(p)) = p

EndsWith(s, p) == Len(s) >= Len(p) /\ SubSeq(s, Len(s) - Len(p) + 1, Len(s)) = p

\* String.includes
Includes(s, p) ==
  Len(p) = 0 \/ \E i \in 1..(Len(s) - Len(p) + 1) : s[i] = p[1] /\ SubSeq(s, i, i + Len(p) - 1) = p

HasChar(s, c) == \E i \in 1..Len(s) : s[i] = c

\* String.indexOf for one character, 1-based, 0 when absent
IndexOfChar(s, c) ==
  IF HasChar(s, c) THEN MinOf({i \in 1..Len(s) : s[i] = c}) ELSE 0

\* least index from start on where s holds c, Len(s) + 1 when there is none
NextIndexOf(s, c, start) ==
  CHOOSE i \in start..(Len(s) + 1) :
    (i = Len(s) + 1 \/ s[i] = c) /\ \A j \in start..(i - 1) : s[j] # c

RECURSIVE SplitFrom(_, _, _)
SplitFrom(s, c, start) ==
  LET next == NextIndexOf(s, c, start)
  IN  IF next > Len(s) THEN <<SubSeq(s, start, Len(s))>>
      ELSE <<SubSeq(s, start, next - 1)>> \o SplitFrom(s, c, next + 1)

\* String.split on a one-character separator
Split(s, c) == SplitFrom(s, c, 1)

RECURSIVE Join(_, _)
Join(parts, sep) ==
  IF Len(parts) = 0 THEN <<>>
  ELSE IF Len(parts) = 1 THEN parts[1]
  ELSE parts[1] \o sep \o Join(Tail(parts), sep)

\* /\s{2,}/.test(s)
HasMultiSpace(s) == \E i \in 1..(Len(s) - 1) : s[i] \in Ws /\ s[i + 1] \in Ws

RECURSIVE SplitMultiSpaceFrom(_, _)
SplitMultiSpaceFrom(s, start) ==
  LET runs == {i \in start..(Len(s) - 1) : s[i] \in Ws /\ s[i + 1] \in Ws}
  IN  IF runs = {} THEN <<SubSeq(s, start, Len(s))>>
      ELSE LET b == MinOf(runs)
               after == {j \in b..Len(s) : s[j] \notin Ws}
               e == IF after = {} THEN Len(s) + 1 ELSE MinOf(after)
           IN  <<SubSeq(s, start, b - 1)>> \o SplitMultiSpaceFrom(s, e)

\* String.split(/\s{2,}/)
SplitMultiSpace(s) == SplitMultiSpaceFrom(s, 1)

\* s with the longest prefix of characters of set C removed
DropWhile(s, C) == SubSeq(s, LeadingCount(s, C) + 1, Len(s))

SelectNonBlank(cells) == SelectSeq(cells, LAMBDA c : Len(Trim(c)) > 0)

(***************************************************************************)
(* Sections                                                                *)
(***************************************************************************)
SectionKeys == {"issue", "impact", "rootCause", "fix", "validation", "lessonsLearned", "prevention", "finalNote"}

\* currentSection before the first marker
NoSection == "null"

\* value of markerToSection[name] for a name the object literal does not
\* define but Object.prototype does: truthy, and no key of ParsedSections
ProtoValue == "Object.prototype"

ObjectPrototypeNames == {<<"c","o","n","s","t","r","u","c","t","o","r">>, <<"t","o","S","t","r","i","n","g">>, <<"v","a","l","u","e","O","f">>, <<"h","a","s","O","w","n","P","r","o","p","e","r","t","y">>}

EmptySections == [k \in SectionKeys |-> <<>>]

\* replace(/^#+\s*/, '')
StripHeaderPrefix(trimmed) ==
  IF Len(trimmed) > 0 /\ trimmed[1] = "#" THEN DropWhile(DropWhile(trimmed, {"#"}), Ws) ELSE trimmed

\* replace(/[:\uFF1A]\s*$/, '')
StripHeaderColon(s) ==
  LET colons == {i \in 1..Len(s) : s[i] \in {":", FullwidthColon} /\ \A j \in (i + 1)..Len(s) : s[j] \in Ws}
  IN  IF colons = {} THEN s ELSE SubSeq(s, 1, MinOf(colons) - 1)

\* HeaderKey without the synonym of fix
HeaderKeyWithoutResolution(cleaned) ==
  IF cleaned = <<"i","s","s","u","e">> THEN "issue"
  ELSE IF cleaned = <<"i","m","p","a","c","t">> THEN "impact"
  ELSE IF cleaned = <<"r","o","o","t"," ","c","a","u","s","e">> THEN "rootCause"
  ELSE IF cleaned = <<"f","i","x">> THEN "fix"
  ELSE IF cleaned = <<"v","a","l","i","d","a","t","i","o","n">> THEN "validation"
  ELSE IF cleaned = <<"l","e","s","s","o","n"," ","l","e","a","r","n","e","d">> \/ cleaned = <<"l","e","s","s","o","n","s"," ","l","e","a","r","n","e","d">> THEN "lessonsLearned"
  ELSE IF cleaned = <<"p","r","e","v","e","n","t","i","o","n">> THEN "prevention"
  ELSE IF cleaned = <<"f","i","n","a","l"," ","n","o","t","e">> \/ cleaned = <<"f","i","n","a","l"," ","n","o","t","e","s">> THEN "finalNote"
  ELSE NoSection

HeaderKey(cleaned) ==
  IF cleaned = <<"i","s","s","u","e">> THEN "issue"
  ELSE IF cleaned = <<"i","m","p","a","c","t">> THEN "impact"
  ELSE IF cleaned = <<"r","o","o","t"," ","c","a","u","s","e">> THEN "rootCause"
  ELSE IF cleaned = <<"r","e","s","o","l","u","t","i","o","n">> \/ cleaned = <<"f","i","x">> THEN "fix"
  ELSE IF cleaned = <<"v","a","l","i","d","a","t","i","o","n">> THEN "validation"
  ELSE IF cleaned = <<"l","e","s","s","o","n"," ","l","e","a","r","n","e","d">> \/ cleaned = <<"l","e","s","s","o","n","s"," ","l","e","a","r","n","e","d">> THEN "lessonsLearned"
  ELSE IF cleaned = <<"p","r","e","v","e","n","t","i","o","n">> THEN "prevention"
  ELSE IF cleaned = <<"f","i","n","a","l"," ","n","o","t","e">> \/ cleaned = <<"f","i","n","a","l"," ","n","o","t","e","s">> THEN "finalNote"
  ELSE NoSection

detectSectionHeader(line) ==
  HeaderKey(StripHeaderColon(StripHeaderPrefix(ToLowerCase(Trim(line)))))

\* columns of one line as isTableLike counts them
ColumnCount(line) ==
  IF HasChar(line, "\t") THEN Len(SelectNonBlank(Split(line, "\t")))
  ELSE Len(SelectNonBlank(SplitMultiSpace(line)))

isTableLike(lines) ==
  IF Len(lines) < 2 THEN FALSE
  ELSE LET hasTabSeparators == \A i \in 1..Len(lines) : HasChar(lines[i], "\t")
           hasMultiSpaceSeparators == \A i \in 1..Len(lines) : HasMultiSpace(lines[i])
           columnCounts == {ColumnCount(lines[i]) : i \in 1..Len(lines)}
       IN  IF ~hasTabSeparators /\ ~hasMultiSpaceSeparators THEN FALSE
           ELSE MinOf(columnCounts) >= 2 /\ MaxOf(columnCounts) - MinOf(columnCounts) <= 1

\* cells of one line as linesToMarkdownTable splits them
TableCells(line) ==
  LET raw == IF HasChar(line, "\t") THEN Split(line, "\t") ELSE SplitMultiSpace(line)
  IN  [i \in 1..Len(raw) |-> Trim(raw[i])]

\* the rows of linesToMarkdownTable left as wide as their lines give them
TableRowsUnpadded(lines) == [i \in 1..Len(lines) |-> TableCells(lines[i])]

\* rows of linesToMarkdownTable after padding to the widest row
TableRows(lines) ==
  LET rows == [i \in 1..Len(lines) |-> TableCells(lines[i])]
      maxCols == MaxOf({Len(rows[i]) : i \in 1..Len(rows)})
  IN  [i \in 1..Len(rows) |-> [c \in 1..maxCols |-> IF c <= Len(rows[i]) THEN rows[i][c] ELSE <<>>]]

TableRowLine(row) == <<"|"," ">> \o Join(row, <<" ","|"," ">>) \o <<" ","|">>

linesToMarkdownTable(lines) ==
  IF Len(lines) = 0 THEN <<>>
  ELSE LET normalizedRows == TableRows(lines)
           header == normalizedRows[1]
           headerLine == TableRowLine(header)
           separatorLine == TableRowLine([c \in 1..Len(header) |-> <<"-","-","-">>])
           dataLines == [i \in 1..(Len(normalizedRows) - 1) |-> TableRowLine(normalizedRows[i + 1])]
       IN  Join(<<headerLine, separatorLine>> \o dataLines, <<"\n">>)

(***************************************************************************)
(* Preprocessing and section parsing                                       *)
(***************************************************************************)
markerMap(sectionKey) ==
  CASE sectionKey = "issue" -> <<"I","S","S","U","E">>
    [] sectionKey = "impact" -> <<"I","M","P","A","C","T">>
    [] sectionKey = "rootCause" -> <<"R","O","O","T","_","C","A","U","S","E">>
    [] sectionKey = "fix" -> <<"R","E","S","O","L","U","T","I","O","N">>
    [] sectionKey = "validation" -> <<"V","A","L","I","D","A","T","I","O","N">>
    [] sectionKey = "lessonsLearned" -> <<"L","E","S","S","O","N","S","_","L","E","A","R","N","E","D">>
    [] sectionKey = "prevention" -> <<"P","R","E","V","E","N","T","I","O","N">>
    [] sectionKey = "finalNote" -> <<"F","I","N","A","L","_","N","O","T","E">>

\* markerToSection[name] || null
markerToSection(name) ==
  IF \E k \in SectionKeys : markerMap(k) = name
  THEN CHOOSE k \in SectionKeys : markerMap(k) = name
  ELSE IF name \in ObjectPrototypeNames THEN ProtoValue
  ELSE NoSection

\* first index after i of a blank line or a section header, Len + 1 when none
BlockEnd(lines, i) ==
  LET stops == {j \in (i + 1)..Len(lines) : Len(Trim(lines[j])) = 0 \/ detectSectionHeader(lines[j]) # NoSection}
  IN  IF stops = {} THEN Len(lines) + 1 ELSE MinOf(stops)

RECURSIVE PreprocessFrom(_, _)
PreprocessFrom(lines, i) ==
  IF i > Len(lines) THEN <<>>
  ELSE LET line == lines[i]
           sectionKey == detectSectionHeader(line)
           j == BlockEnd(lines, i)
           lookAheadLines == [k \in 1..(j - i) |-> Trim(lines[i + k - 1])]
       IN  IF Len(Trim(line)) = 0 THEN <<line>> \o PreprocessFrom(lines, i + 1)
           ELSE IF sectionKey # NoSection
             THEN <<<<"[","[","S","E","C","T","I","O","N",":">> \o markerMap(sectionKey) \o <<"]","]">>>> \o PreprocessFrom(lines, i + 1)
           ELSE IF isTableLike(lookAheadLines)
             THEN <<<<"[","[","T","A","B","L","E","]","]">>>> \o lookAheadLines \o <<<<"[","[","/","T","A","B","L","E","]","]">>>> \o PreprocessFrom(lines, j)
           ELSE <<line>> \o PreprocessFrom(lines, i + 1)

preprocessRawText(rawText) == Join(PreprocessFrom(Split(rawText, "\n"), 1), <<"\n">>)

\* /^\[\[SECTION:(\w+)\]\]$/
IsSectionMarker(trimmed) ==
  /\ Len(trimmed) > 12
  /\ StartsWith(trimmed, <<"[","[","S","E","C","T","I","O","N",":">>)
  /\ EndsWith(trimmed, <<"]","]">>)
  /\ \A i \in 11..(Len(trimmed) - 2) : trimmed[i] \in WordChar

\* sections[currentSection].push(item); a currentSection that is no key of
\* sections makes the push throw a TypeError
PushItem(st, item) ==
  IF st.currentSection \in SectionKeys
  THEN [st EXCEPT !.sections[st.currentSection] = Append(@, item)]
  ELSE [st EXCEPT !.thrown = TRUE]

\* one iteration of the loop of parseMarkedText
ParseLine(st, line) ==
  LET trimmed == Trim(line)
  IN  IF st.thrown THEN st
      ELSE IF IsSectionMarker(trimmed)
        THEN [st EXCEPT !.currentSection = markerToSection(SubSeq(trimmed, 11, Len(trimmed) - 2))]
      ELSE IF trimmed = <<"[","[","T","A","B","L","E","]","]">>
        THEN [st EXCEPT !.inTable = TRUE, !.tableLines = <<>>]
      ELSE IF trimmed = <<"[","[","/","T","A","B","L","E","]","]">>
        THEN IF st.currentSection # NoSection /\ Len(st.tableLines) > 0
             THEN PushItem([st EXCEPT !.inTable = FALSE], linesToMarkdownTable(st.tableLines))
             ELSE [st EXCEPT !.inTable = FALSE]
      ELSE IF st.inTable
        THEN IF Len(trimmed) > 0 THEN [st EXCEPT !.tableLines = Append(@, trimmed)] ELSE st
      ELSE IF Len(trimmed) > 0 /\ st.currentSection # NoSection
        THEN PushItem(st, trimmed)
      ELSE st

RECURSIVE ParseFrom(_, _, _)
ParseFrom(st, lines, i) ==
  IF i > Len(lines) THEN st ELSE ParseFrom(ParseLine(st, lines[i]), lines, i + 1)

\* the state parseMarkedText starts its loop in
ParseStart ==
  [currentSection |-> NoSection, inTable |-> FALSE, tableLines |-> <<>>,
   sections |-> EmptySections, thrown |-> FALSE]

\* what leaves parseMarkedText: the sections, or a TypeError (thrown)
ParseResult(st) == [sections |-> st.sections, thrown |-> st.thrown]

parseMarkedText(markedText) == ParseResult(ParseFrom(ParseStart, Split(markedText, "\n"), 1))

parseIncidentText(rawText) == parseMarkedText(preprocessRawText(rawText))

(***************************************************************************)
(* Rendering                                                               *)
(***************************************************************************)
LineTerminator == {"\n", "\r"}

NoLineTerminator(s) == \A i \in 1..Len(s) : s[i] \notin LineTerminator

\* end positions of a match of /^STEP\s*\d+:\s*/i at the start of line
StepPrefixEnds(line) ==
  IF Len(line) >= 4 /\ ToLowerCase(SubSeq(line, 1, 4)) = <<"s","t","e","p">>
  THEN LET d == {i \in 5..Len(line) : line[i] \notin Ws}
       IN  IF d = {} THEN {}
           ELSE LET d1 == MinOf(d)
                    nd == {i \in d1..Len(line) : line[i] \notin Digit}
                IN  IF line[d1] \notin Digit \/ nd = {} \/ line[MinOf(nd)] # ":" THEN {}
                    ELSE LET c == MinOf(nd)
                         IN  {e \in c..Len(line) : \A k \in (c + 1)..e : line[k] \in Ws}
  ELSE {}

\* line.match(/^(?:STEP\s*\d+:\s*)?(.+?)$/i): the text captured by group 1,
\* trimmed, in a one-element sequence; the empty sequence when no match
StepMatch(line) ==
  LET ends == {e \in StepPrefixEnds(line) : e < Len(line) /\ NoLineTerminator(SubSeq(line, e + 1, Len(line)))}
  IN  IF ends # {} THEN <<Trim(SubSeq(line, MaxOf(ends) + 1, Len(line)))>>
      ELSE IF Len(line) > 0 /\ NoLineTerminator(line) THEN <<Trim(line)>>
      ELSE <<>>

\* /^[A-Z][A-Za-z\s]+$/.test(content)
IsHeadingText(content) ==
  /\ Len(content) >= 2
  /\ content[1] \in Upper
  /\ \A i \in 2..Len(content) : content[i] \in Upper \cup Lower \cup Ws

BulletChars == {"-", "*", BulletDot}

\* line.replace(/^[-*]\s*/, '')
StripBullet(line) ==
  IF Len(line) > 0 /\ line[1] \in BulletChars THEN DropWhile(Tail(line), Ws) ELSE line

\* line.replace(/^\d+\.\s*/, '')
StripNumber(line) ==
  LET rest == DropWhile(line, Digit)
  IN  IF Len(line) > 0 /\ line[1] \in Digit /\ Len(rest) > 0 /\ rest[1] = "."
      THEN DropWhile(Tail(rest), Ws) ELSE line

IsTableItem(item) == StartsWith(item, <<"|">>)

\* the table loop leaving after one table item
TableRunEndAfterOne(items, i) ==
  IF i <= Len(items) /\ IsTableItem(items[i]) THEN i + 1 ELSE i

\* first index from i on of an item that does not start with a pipe
TableRunEnd(items, i) ==
  LET other == {j \in i..Len(items) : ~IsTableItem(items[j])}
  IN  IF other = {} THEN Len(items) + 1 ELSE MinOf(other)

RECURSIVE FixFrom(_, _)
FixFrom(fixLines, i) ==
  IF i > Len(fixLines) THEN <<>>
  ELSE LET line == fixLines[i]
           stepMatch == StepMatch(line)
           content == stepMatch[1]
           isFollowedByTable == i + 1 <= Len(fixLines) /\ IsTableItem(fixLines[i + 1])
           j == TableRunEnd(fixLines, i + 1)
       IN  IF stepMatch = <<>> THEN FixFrom(fixLines, i + 1)
           ELSE IF isFollowedByTable \/ IsHeadingText(content)
             THEN <<<<"#","#","#"," ">> \o content, <<>>>> \o SubSeq(fixLines, i + 1, j - 1) \o << <<>> >>
                  \o FixFrom(fixLines, j)
           ELSE <<<<"-"," ">> \o StripNumber(StripBullet(line))>> \o FixFrom(fixLines, i + 1)

\* buildFixSection answering an empty section with the placeholder of the other sections
buildFixSectionDataPlaceholder(fixLines) ==
  IF Len(fixLines) = 0 THEN <<"(","N","o"," ","d","a","t","a"," ","c","a","p","t","u","r","e","d"," ","i","n"," ","i","n","c","i","d","e","n","t"," ","n","o","t","e","s",".",")">>
  ELSE Trim(Join(FixFrom(fixLines, 1), <<"\n">>))

buildFixSection(fixLines) ==
  IF Len(fixLines) = 0 THEN <<"(","N","o"," ","f","i","x"," ","s","t","e","p","s"," ","c","a","p","t","u","r","e","d"," ","i","n"," ","i","n","c","i","d","e","n","t"," ","n","o","t","e","s",".",")">>
  ELSE Trim(Join(FixFrom(fixLines, 1), <<"\n">>))

\* line.match(/^(.*?:)\s*$/): index of the colon that ends group 1, 0 when no match
HierarchyColon(line) ==
  LET c == {i \in 1..Len(line) : /\ line[i] = ":"
                                 /\ \A j \in (i + 1)..Len(line) : line[j] \in Ws
                                 /\ NoLineTerminator(SubSeq(line, 1, i))}
  IN  IF c = {} THEN 0 ELSE MinOf(c)

\* /^[-*\u2022]\s/.test(line) || /^\d+\.\s/.test(line)
IsListLine(line) ==
  \/ Len(line) >= 2 /\ line[1] \in BulletChars /\ line[2] \in Ws
  \/ LET rest == DropWhile(line, Digit)
     IN  Len(line) > 0 /\ line[1] \in Digit /\ Len(rest) >= 2 /\ rest[1] = "." /\ rest[2] \in Ws

\* first index from i on of a table item or a hierarchy marker
NestedEnd(lines, i) ==
  LET stops == {j \in i..Len(lines) : IsTableItem(lines[j]) \/ HierarchyColon(lines[j]) # 0}
  IN  IF stops = {} THEN Len(lines) + 1 ELSE MinOf(stops)

NestedLine(nestedLine) ==
  IF StartsWith(nestedLine, <<"-">>) THEN <<" "," ">> \o nestedLine ELSE <<" "," ","-"," ">> \o nestedLine

RECURSIVE SectionFrom(_, _, _)
SectionFrom(lines, i, result) ==
  IF i > Len(lines) THEN result
  ELSE LET line == lines[i]
           j == NestedEnd(lines, i + 1)
       IN  IF IsTableItem(line)
             THEN SectionFrom(lines, i + 1,
                    (IF Len(result) > 0 /\ StartsWith(result[Len(result)], <<"-">>)
                     THEN Append(result, <<>>) ELSE result) \o <<line>>)
           ELSE IF HierarchyColon(line) # 0 /\ i + 1 <= Len(lines) /\ ~IsTableItem(lines[i + 1])
             THEN SectionFrom(lines, j,
                    result \o <<<<"-"," ">> \o SubSeq(line, 1, HierarchyColon(line))>>
                           \o [k \in 1..(j - i - 1) |-> NestedLine(lines[i + k])])
           ELSE IF IsListLine(line) THEN SectionFrom(lines, i + 1, Append(result, line))
           ELSE SectionFrom(lines, i + 1, Append(result, <<"-"," ">> \o line))

\* buildSection with the content lines joined as they are, as the renderer
\* of the earlier Notes section did
buildSectionVerbatim(lines) ==
  IF Len(lines) = 0 THEN <<"(","N","o"," ","d","a","t","a"," ","c","a","p","t","u","r","e","d"," ","i","n"," ","i","n","c","i","d","e","n","t"," ","n","o","t","e","s",".",")">>
  ELSE Join(lines, <<"\n">>)

buildSection(lines) ==
  IF Len(lines) = 0 THEN <<"(","N","o"," ","d","a","t","a"," ","c","a","p","t","u","r","e","d"," ","i","n"," ","i","n","c","i","d","e","n","t"," ","n","o","t","e","s",".",")">>
  ELSE Join(SectionFrom(lines, 1, <<>>), <<"\n">>)

\* buildBody with the Prevention heading emitted only for a non-empty section
buildBodyOptionalPrevention(parsed) ==
  <<"\n","#","#"," ","I","s","s","u","e","\n","\n">> \o buildSection(parsed["issue"])
  \o <<"\n","\n","#","#"," ","I","m","p","a","c","t","\n","\n">> \o buildSection(parsed["impact"])
  \o <<"\n","\n","#","#"," ","R","o","o","t"," ","C","a","u","s","e","\n","\n">> \o buildSection(parsed["rootCause"])
  \o <<"\n","\n","#","#"," ","F","i","x","\n","\n">> \o buildFixSection(parsed["fix"])
  \o <<"\n","\n","#","#"," ","V","a","l","i","d","a","t","i","o","n","\n","\n">> \o buildSection(parsed["validation"])
  \o <<"\n","\n","#","#"," ","L","e","s","s","o","n","s"," ","L","e","a","r","n","e","d","\n","\n">> \o buildSection(parsed["lessonsLearned"])
  \o <<"\n","\n">>
  \o (IF Len(parsed["prevention"]) > 0 THEN <<"#","#"," ","P","r","e","v","e","n","t","i","o","n","\n","\n">> \o buildSection(parsed["prevention"])
      ELSE <<>>)
  \o <<"\n","\n">>
  \o (IF Len(parsed["finalNote"]) > 0 THEN <<"#","#"," ","F","i","n","a","l"," ","N","o","t","e","\n","\n">> \o buildSection(parsed["finalNote"])
      ELSE <<>>)
  \o <<"\n">>

buildBody(parsed) ==
  <<"\n","#","#"," ","I","s","s","u","e","\n","\n">> \o buildSection(parsed["issue"])
  \o <<"\n","\n","#","#"," ","I","m","p","a","c","t","\n","\n">> \o buildSection(parsed["impact"])
  \o <<"\n","\n","#","#"," ","R","o","o","t"," ","C","a","u","s","e","\n","\n">> \o buildSection(parsed["rootCause"])
  \o <<"\n","\n","#","#"," ","F","i","x","\n","\n">> \o buildFixSection(parsed["fix"])
  \o <<"\n","\n","#","#"," ","V","a","l","i","d","a","t","i","o","n","\n","\n">> \o buildSection(parsed["validation"])
  \o <<"\n","\n","#","#"," ","L","e","s","s","o","n","s"," ","L","e","a","r","n","e","d","\n","\n">> \o buildSection(parsed["lessonsLearned"])
  \o <<"\n","\n","#","#"," ","P","r","e","v","e","n","t","i","o","n","\n","\n">>
  \o (IF Len(parsed["prevention"]) > 0 THEN buildSection(parsed["prevention"])
      ELSE <<"(","N","o"," ","p","r","e","v","e","n","t","i","o","n"," ","s","t","e","p","s"," ","c","a","p","t","u","r","e","d",".",")">>)
  \o <<"\n","\n">>
  \o (IF Len(parsed["finalNote"]) > 0 THEN <<"#","#"," ","F","i","n","a","l"," ","N","o","t","e","\n","\n">> \o buildSection(parsed["finalNote"])
      ELSE <<>>)
  \o <<"\n">>

(***************************************************************************)
(* Frontmatter                                                             *)
(*                                                                         *)
(* A JavaScript value of a frontmatter field is a record: a string, an     *)
(* array of strings, or another scalar (a number) given by its rendering.  *)
(* An object is the sequence of its entries in insertion order.            *)
(***************************************************************************)
StrVal(s) == [kind |-> "string", str |-> s, arr |-> <<>>]

ArrVal(a) == [kind |-> "array", str |-> <<>>, arr |-> a]

NumVal(s) == [kind |-> "other", str |-> s, arr |-> <<>>]

NullObject == [isNull |-> TRUE, entries |-> <<>>]

Object(entries) == [isNull |-> FALSE, entries |-> entries]

HasKey(entries, key) == \E i \in 1..Len(entries) : entries[i].key = key

GetKey(entries, key) == entries[CHOOSE i \in 1..Len(entries) : entries[i].key = key].value

\* frontmatter[key] = value
SetKey(entries, key, value) ==
  IF HasKey(entries, key)
  THEN [i \in 1..Len(entries) |-> IF entries[i].key = key THEN [key |-> key, value |-> value] ELSE entries[i]]
  ELSE Append(entries, [key |-> key, value |-> value])

\* JavaScript truthiness of a field value
Truthy(v) ==
  CASE v.kind = "array" -> TRUE
    [] v.kind = "string" -> Len(v.str) > 0
    [] v.kind = "other" -> v.str # <<"0">>

QuoteChars == {"\"", "'"}

\* value.replace(/^["']|["']$/g, '')
StripQuotes(value) ==
  LET a == IF Len(value) > 0 /\ value[1] \in QuoteChars THEN Tail(value) ELSE value
  IN  IF Len(a) > 0 /\ a[Len(a)] \in QuoteChars THEN SubSeq(a, 1, Len(a) - 1) ELSE a

\* the value extractFrontmatter stores for the text after the colon
ParseFrontmatterValue(text) ==
  LET value == StripQuotes(Trim(text))
      arrayContent == IF Len(value) = 1 THEN value ELSE SubSeq(value, 2, Len(value) - 1)
      parts == Split(arrayContent, ",")
  IN  IF StartsWith(value, <<"[">>) /\ EndsWith(value, <<"]">>)
      THEN ArrVal([i \in 1..Len(parts) |-> StripQuotes(Trim(parts[i]))])
      ELSE StrVal(value)

RECURSIVE ParseFrontmatterLines(_, _, _)
ParseFrontmatterLines(frontmatterLines, i, entries) ==
  IF i > Len(frontmatterLines) THEN entries
  ELSE LET line == frontmatterLines[i]
           colonIndex == IndexOfChar(line, ":")
       IN  IF colonIndex > 1
           THEN ParseFrontmatterLines(frontmatterLines, i + 1,
                  SetKey(entries, Trim(SubSeq(line, 1, colonIndex - 1)),
                         ParseFrontmatterValue(SubSeq(line, colonIndex + 1, Len(line)))))
           ELSE ParseFrontmatterLines(frontmatterLines, i + 1, entries)

\* extractFrontmatter reading an unclosed block to the end of the text
extractFrontmatterUnclosed(rawText) ==
  LET lines == Split(rawText, "\n")
      closing == {i \in 2..Len(lines) : Trim(lines[i]) = <<"-","-","-">>} \cup {Len(lines) + 1}
  IN  IF Len(lines) > 2 /\ Trim(lines[1]) = <<"-","-","-">>
      THEN LET endIndex == MinOf(closing)
           IN  [frontmatter |-> Object(ParseFrontmatterLines(SubSeq(lines, 2, endIndex - 1), 1, <<>>)),
                contentWithoutFrontmatter |-> Join(SubSeq(lines, endIndex + 1, Len(lines)), <<"\n">>)]
      ELSE [frontmatter |-> NullObject, contentWithoutFrontmatter |-> rawText]

extractFrontmatter(rawText) ==
  LET lines == Split(rawText, "\n")
      closing == {i \in 2..Len(lines) : Trim(lines[i]) = <<"-","-","-">>}
  IN  IF Len(lines) > 2 /\ Trim(lines[1]) = <<"-","-","-">> /\ closing # {}
      THEN LET endIndex == MinOf(closing)
           IN  [frontmatter |-> Object(ParseFrontmatterLines(SubSeq(lines, 2, endIndex - 1), 1, <<>>)),
                contentWithoutFrontmatter |-> Join(SubSeq(lines, endIndex + 1, Len(lines)), <<"\n">>)]
      ELSE [frontmatter |-> NullObject, contentWithoutFrontmatter |-> rawText]

QuoteAll(values) == [i \in 1..Len(values) |-> <<"\"">> \o values[i] \o <<"\"">>]

\* one line of the frontmatter built from an existing object
FrontMatterLine(entry) ==
  CASE entry.value.kind = "array" ->
         entry.key \o <<":"," ","[">> \o Join(QuoteAll(entry.value.arr), <<","," ">>) \o <<"]">>
    [] entry.value.kind = "string" -> entry.key \o <<":"," ","\"">> \o entry.value.str \o <<"\"">>
    [] entry.value.kind = "other" -> entry.key \o <<":"," ">> \o entry.value.str

(***************************************************************************)
(* lib/mdx/tagger.ts                                                       *)
(***************************************************************************)
TAG_RULES ==
  << [keywords |-> <<<<"f","r","o","n","t"," ","d","o","o","r">>, <<"a","f","d">>>>, tags |-> <<<<"A","z","u","r","e">>, <<"F","r","o","n","t"," ","D","o","o","r">>, <<"W","A","F">>>>],
     [keywords |-> <<<<"w","a","f">>, <<"o","w","a","s","p">>, <<"w","e","b"," ","a","p","p","l","i","c","a","t","i","o","n"," ","f","i","r","e","w","a","l","l">>>>, tags |-> <<<<"A","z","u","r","e">>, <<"W","A","F">>, <<"S","e","c","u","r","i","t","y">>>>],
     [keywords |-> <<<<"s","t","o","r","a","g","e"," ","a","c","c","o","u","n","t">>, <<"b","l","o","b">>, <<"s","a","s">>, <<"a","z","u","r","e"," ","s","t","o","r","a","g","e">>>>, tags |-> <<<<"A","z","u","r","e">>, <<"S","t","o","r","a","g","e">>>>],
     [keywords |-> <<<<"p","r","i","v","a","t","e"," ","e","n","d","p","o","i","n","t">>, <<"p","r","i","v","a","t","e"," ","l","i","n","k">>>>, tags |-> <<<<"A","z","u","r","e">>, <<"N","e","t","w","o","r","k","i","n","g">>, <<"P","r","i","v","a","t","e"," ","L","i","n","k">>>>],
     [keywords |-> <<<<"n","s","g">>, <<"n","e","t","w","o","r","k"," ","s","e","c","u","r","i","t","y"," ","g","r","o","u","p">>, <<"u","d","r">>, <<"r","o","u","t","e"," ","t","a","b","l","e">>, <<"u","s","e","r","-","d","e","f","i","n","e","d"," ","r","o","u","t","e">>>>, tags |-> <<<<"A","z","u","r","e">>, <<"N","e","t","w","o","r","k","i","n","g">>>>],
     [keywords |-> <<<<"e","x","p","r","e","s","s","r","o","u","t","e">>, <<"e","x","p","r","e","s","s"," ","r","o","u","t","e">>, <<"b","g","p">>>>, tags |-> <<<<"A","z","u","r","e">>, <<"N","e","t","w","o","r","k","i","n","g">>, <<"E","x","p","r","e","s","s","R","o","u","t","e">>>>],
     [keywords |-> <<<<"a","p","p","l","i","c","a","t","i","o","n"," ","g","a","t","e","w","a","y">>, <<"a","p","p"," ","g","a","t","e","w","a","y">>, <<"a","p","p","g","w">>>>, tags |-> <<<<"A","z","u","r","e">>, <<"A","p","p","l","i","c","a","t","i","o","n"," ","G","a","t","e","w","a","y">>>>],
     [keywords |-> <<<<"k","e","y"," ","v","a","u","l","t">>, <<"a","k","v">>>>, tags |-> <<<<"A","z","u","r","e">>, <<"K","e","y"," ","V","a","u","l","t">>, <<"S","e","c","u","r","i","t","y">>>>],
     [keywords |-> <<<<"a","p","p"," ","s","e","r","v","i","c","e">>, <<"w","e","b"," ","a","p","p">>>>, tags |-> <<<<"A","z","u","r","e">>, <<"A","p","p"," ","S","e","r","v","i","c","e">>>>],
     [keywords |-> <<<<"v","i","r","t","u","a","l"," ","m","a","c","h","i","n","e">>, <<"v","m">>>>, tags |-> <<<<"A","z","u","r","e">>, <<"V","i","r","t","u","a","l"," ","M","a","c","h","i","n","e","s">>>>],
     [keywords |-> <<<<"k","u","b","e","r","n","e","t","e","s">>, <<"a","k","s">>, <<"k","8","s">>>>, tags |-> <<<<"A","z","u","r","e">>, <<"A","K","S">>, <<"K","u","b","e","r","n","e","t","e","s">>>>],
     [keywords |-> <<<<"f","u","n","c","t","i","o","n">>, <<"f","u","n","c","t","i","o","n","s"," ","a","p","p">>, <<"a","z","u","r","e"," ","f","u","n","c","t","i","o","n","s">>>>, tags |-> <<<<"A","z","u","r","e">>, <<"F","u","n","c","t","i","o","n","s">>>>],
     [keywords |-> <<<<"c","o","s","m","o","s">>, <<"c","o","s","m","o","s","d","b">>>>, tags |-> <<<<"A","z","u","r","e">>, <<"C","o","s","m","o","s"," ","D","B">>, <<"D","a","t","a","b","a","s","e">>>>],
     [keywords |-> <<<<"s","q","l"," ","d","a","t","a","b","a","s","e">>, <<"a","z","u","r","e"," ","s","q","l">>>>, tags |-> <<<<"A","z","u","r","e">>, <<"S","Q","L"," ","D","a","t","a","b","a","s","e">>>>],
     [keywords |-> <<<<"v","n","e","t">>, <<"v","i","r","t","u","a","l"," ","n","e","t","w","o","r","k">>, <<"s","u","b","n","e","t">>>>, tags |-> <<<<"A","z","u","r","e">>, <<"N","e","t","w","o","r","k","i","n","g">>, <<"V","N","e","t">>>>],
     [keywords |-> <<<<"l","o","a","d"," ","b","a","l","a","n","c","e","r">>, <<"l","b">>>>, tags |-> <<<<"A","z","u","r","e">>, <<"L","o","a","d"," ","B","a","l","a","n","c","e","r">>, <<"N","e","t","w","o","r","k","i","n","g">>>>],
     [keywords |-> <<<<"v","p","n">>, <<"v","p","n"," ","g","a","t","e","w","a","y">>>>, tags |-> <<<<"A","z","u","r","e">>, <<"V","P","N"," ","G","a","t","e","w","a","y">>, <<"N","e","t","w","o","r","k","i","n","g">>>>],
     [keywords |-> <<<<"d","n","s">>, <<"a","z","u","r","e"," ","d","n","s">>>>, tags |-> <<<<"A","z","u","r","e">>, <<"D","N","S">>, <<"N","e","t","w","o","r","k","i","n","g">>>>],
     [keywords |-> <<<<"m","o","n","i","t","o","r">>, <<"a","p","p","l","i","c","a","t","i","o","n"," ","i","n","s","i","g","h","t","s">>, <<"l","o","g"," ","a","n","a","l","y","t","i","c","s">>>>, tags |-> <<<<"A","z","u","r","e">>, <<"M","o","n","i","t","o","r","i","n","g">>>>],
     [keywords |-> <<<<"r","b","a","c">>, <<"r","o","l","e","-","b","a","s","e","d"," ","a","c","c","e","s","s">>, <<"i","a","m">>>>, tags |-> <<<<"A","z","u","r","e">>, <<"S","e","c","u","r","i","t","y">>, <<"R","B","A","C">>>>] >>

\* the tags of TAG_RULES in the order tags.sort puts them: "Azure" first,
\* the others by localeCompare
TagOrder ==
  << <<"A","z","u","r","e">>, <<"A","K","S">>, <<"A","p","p"," ","S","e","r","v","i","c","e">>, <<"A","p","p","l","i","c","a","t","i","o","n"," ","G","a","t","e","w","a","y">>, <<"C","o","s","m","o","s"," ","D","B">>, <<"D","a","t","a","b","a","s","e">>, <<"D","N","S">>,
     <<"E","x","p","r","e","s","s","R","o","u","t","e">>, <<"F","r","o","n","t"," ","D","o","o","r">>, <<"F","u","n","c","t","i","o","n","s">>, <<"K","e","y"," ","V","a","u","l","t">>, <<"K","u","b","e","r","n","e","t","e","s">>, <<"L","o","a","d"," ","B","a","l","a","n","c","e","r">>,
     <<"M","o","n","i","t","o","r","i","n","g">>, <<"N","e","t","w","o","r","k","i","n","g">>, <<"P","r","i","v","a","t","e"," ","L","i","n","k">>, <<"R","B","A","C">>, <<"S","e","c","u","r","i","t","y">>, <<"S","Q","L"," ","D","a","t","a","b","a","s","e">>, <<"S","t","o","r","a","g","e">>,
     <<"V","i","r","t","u","a","l"," ","M","a","c","h","i","n","e","s">>, <<"V","N","e","t">>, <<"V","P","N"," ","G","a","t","e","w","a","y">>, <<"W","A","F">> >>

AzureContextWords == {<<"a","z","u","r","e">>, <<"m","i","c","r","o","s","o","f","t">>, <<"s","u","b","s","c","r","i","p","t","i","o","n">>, <<"r","e","s","o","u","r","c","e"," ","g","r","o","u","p">>}

\* extractTags reading the rule table given
TagsFor(rules, text) ==
  LET lowerText == ToLowerCase(text)
      hit == {r \in 1..Len(rules) :
                \E k \in 1..Len(rules[r].keywords) : Includes(lowerText, rules[r].keywords[k])}
      ruleTags == UNION {{rules[r].tags[t] : t \in 1..Len(rules[r].tags)} : r \in hit}
      hasAzureContext == \E w \in AzureContextWords : Includes(lowerText, w)
      tagSet == IF hasAzureContext THEN ruleTags \cup {<<"A","z","u","r","e">>} ELSE ruleTags
      tags == SelectSeq(TagOrder, LAMBDA t : t \in tagSet)
  IN  IF Len(tags) > 0 THEN tags ELSE <<<<"A","z","u","r","e">>, <<"G","e","n","e","r","a","l">>>>

extractTags(text) == TagsFor(TAG_RULES, text)

(***************************************************************************)
(* lib/mdx/validator.ts: the warnings of validateMDX                       *)
(***************************************************************************)
\* text captured by /^---\n([\s\S]*?)\n---/ in a one-element sequence, or <<>>
FrontMatterMatch(mdxContent) ==
  LET ends == {i \in 4..(Len(mdxContent) - 3) : mdxContent[i] = "\n" /\ SubSeq(mdxContent, i, i + 3) = <<"\n","-","-","-">>}
  IN  IF StartsWith(mdxContent, <<"-","-","-","\n">>) /\ ends # {}
      THEN <<SubSeq(mdxContent, 5, MinOf(ends) - 1)>>
      ELSE <<>>

\* frontMatter.match(/tags:\s*\[.*\]/)
TagsArrayMatch(frontMatter) ==
  \E i \in 1..(Len(frontMatter) - 4) :
    /\ SubSeq(frontMatter, i, i + 4) = <<"t","a","g","s",":">>
    /\ LET rest == SubSeq(frontMatter, i + 5, Len(frontMatter))
           open == DropWhile(rest, Ws)
           eol == {k \in 1..Len(open) : open[k] \in LineTerminator}
           sameLine == IF eol = {} THEN open ELSE SubSeq(open, 1, MinOf(eol) - 1)
       IN  Len(open) > 0 /\ open[1] = "[" /\ HasChar(Tail(sameLine), "]")

CountChar(s, c) == Cardinality({i \in 1..Len(s) : s[i] = c})

\* inCodeBlock when line i is examined: the fence lines up to and including i toggle it
InCodeBlockAt(lines, i) ==
  Cardinality({k \in 1..i : StartsWith(Trim(lines[k]), <<Backtick,Backtick,Backtick>>)}) % 2 = 1

BacktickWarning(n) == [msg |-> "Possible unclosed inline code backtick", line |-> n]

TagsWarning == [msg |-> "Tags should be formatted as an array [tag1, tag2]", line |-> 0]

ShortWarning == [msg |-> "Content seems too short (less than 50 characters)", line |-> 0]

\* mdxContent.replace(/^---\n[\s\S]*?\n---\n/, '')
WithoutFrontMatter(mdxContent) ==
  LET ends == {i \in 4..(Len(mdxContent) - 4) : mdxContent[i] = "\n" /\ SubSeq(mdxContent, i, i + 4) = <<"\n","-","-","-","\n">>}
  IN  IF StartsWith(mdxContent, <<"-","-","-","\n">>) /\ ends # {}
      THEN SubSeq(mdxContent, MinOf(ends) + 5, Len(mdxContent))
      ELSE mdxContent

validateMDXWarnings(mdxContent) ==
  LET frontMatterMatch == FrontMatterMatch(mdxContent)
      lines == Split(mdxContent, "\n")
      odd == {i \in 1..Len(lines) :
                /\ CountChar(lines[i], Backtick) % 2 # 0
                /\ ~Includes(lines[i], <<Backtick,Backtick,Backtick>>)
                /\ ~InCodeBlockAt(lines, i)}
      ticks == [i \in 1..Len(lines) |-> i]
  IN  IF Len(Trim(mdxContent)) = 0 THEN <<>>
      ELSE (IF frontMatterMatch # <<>> /\ Includes(frontMatterMatch[1], <<"t","a","g","s",":">>)
               /\ ~TagsArrayMatch(frontMatterMatch[1])
            THEN <<TagsWarning>> ELSE <<>>)
           \o [k \in 1..Cardinality(odd) |-> BacktickWarning(SelectSeq(ticks, LAMBDA i : i \in odd)[k])]
           \o (IF Len(Trim(WithoutFrontMatter(mdxContent))) < 50 THEN <<ShortWarning>> ELSE <<>>)

(***************************************************************************)
(* generateMDX                                                             *)
(***************************************************************************)
SentenceEnd == {".", "!", "?"}

RECURSIVE SplitOnSetFrom(_, _, _)
SplitOnSetFrom(s, C, start) ==
  LET idx == {i \in start..Len(s) : s[i] \in C}
  IN  IF idx = {} THEN <<SubSeq(s, start, Len(s))>>
      ELSE <<SubSeq(s, start, MinOf(idx) - 1)>> \o SplitOnSetFrom(s, C, MinOf(idx) + 1)

\* issueText.split(/[.!?]/)
SplitSentences(s) == SplitOnSetFrom(s, SentenceEnd, 1)

\* s.substring(0, n)
Substring(s, n) == SubSeq(s, 1, IF Len(s) < n THEN Len(s) ELSE n)

TitleLimit == 80

DescriptionLimit == 150

DefaultTitle == <<"A","z","u","r","e"," ","T","r","o","u","b","l","e","s","h","o","o","t","i","n","g"," ","G","u","i","d","e">>

DefaultCategory == <<"a","z","u","r","e","-","t","r","o","u","b","l","e","s","h","o","o","t","i","n","g">>

\* an absent (undefined) optional string argument; the source tests these
\* arguments for truthiness only, which the empty string fails as well
Undefined == <<>>

\* the return value of generateMDX, or thrown when an exception leaves it
Thrown == [thrown |-> TRUE, mdx |-> <<>>, tags |-> ArrVal(<<>>), warnings |-> <<>>]

Returned(mdx, tags, warnings) == [thrown |-> FALSE, mdx |-> mdx, tags |-> tags, warnings |-> warnings]

\* ExistingFrontMatter with a default category added when the object has none
ExistingFrontMatterWithDefaults(actualFrontmatter) ==
  Join(<<<<"-","-","-">>>> \o [i \in 1..Len(actualFrontmatter.entries) |-> FrontMatterLine(actualFrontmatter.entries[i])]
       \o (IF HasKey(actualFrontmatter.entries, <<"c","a","t","e","g","o","r","y">>) THEN <<>>
           ELSE <<<<"c","a","t","e","g","o","r","y",":"," ","\"">> \o DefaultCategory \o <<"\"">>>>)
       \o <<<<"-","-","-">>>>, <<"\n">>)

\* the frontmatter text of the branch that copies an existing object
ExistingFrontMatter(actualFrontmatter) ==
  Join(<<<<"-","-","-">>>> \o [i \in 1..Len(actualFrontmatter.entries) |-> FrontMatterLine(actualFrontmatter.entries[i])]
       \o <<<<"-","-","-">>>>, <<"\n">>)

\* GeneratedFrontMatter with the severity defaulted to "Medium", as the
\* earlier generateMDX did
GeneratedFrontMatterDefaultSeverity(parsed, tags, title, category, severity, date) ==
  LET issueText == Join(parsed["issue"], <<" ">>)
      firstSentence == Trim(SplitSentences(issueText)[1])
      finalTitle == IF Len(title) > 0 THEN title
                    ELSE IF Len(Substring(firstSentence, TitleLimit)) > 0
                      THEN Substring(firstSentence, TitleLimit)
                    ELSE DefaultTitle
      sentences == SelectNonBlank(SplitSentences(issueText))
      description == Substring(Join(SubSeq(sentences, 1, IF Len(sentences) < 2 THEN Len(sentences) ELSE 2), <<"."," ">>),
                               DescriptionLimit) \o <<".",".",".">>
      finalCategory == IF Len(category) > 0 THEN category ELSE DefaultCategory
  IN  <<"-","-","-","\n","t","i","t","l","e",":"," ","\"">> \o finalTitle \o <<"\"","\n","d","e","s","c","r","i","p","t","i","o","n",":"," ","\"">> \o description
      \o <<"\"","\n","d","a","t","e",":"," ","\"">> \o date \o <<"\"","\n","t","a","g","s",":"," ","[">> \o Join(QuoteAll(tags), <<","," ">>)
      \o <<"]","\n","c","a","t","e","g","o","r","y",":"," ","\"">> \o finalCategory \o <<"\"">>
      \o <<"\n","s","e","v","e","r","i","t","y",":"," ","\"">> \o (IF Len(severity) > 0 THEN severity ELSE <<"M","e","d","i","u","m">>) \o <<"\"">>
      \o <<"\n","-","-","-">>

\* the frontmatter text of the branch that generates the fields
GeneratedFrontMatter(parsed, tags, title, category, severity, date) ==
  LET issueText == Join(parsed["issue"], <<" ">>)
      firstSentence == Trim(SplitSentences(issueText)[1])
      finalTitle == IF Len(title) > 0 THEN title
                    ELSE IF Len(Substring(firstSentence, TitleLimit)) > 0
                      THEN Substring(firstSentence, TitleLimit)
                    ELSE DefaultTitle
      sentences == SelectNonBlank(SplitSentences(issueText))
      description == Substring(Join(SubSeq(sentences, 1, IF Len(sentences) < 2 THEN Len(sentences) ELSE 2), <<"."," ">>),
                               DescriptionLimit) \o <<".",".",".">>
      finalCategory == IF Len(category) > 0 THEN category ELSE DefaultCategory
  IN  <<"-","-","-","\n","t","i","t","l","e",":"," ","\"">> \o finalTitle \o <<"\"","\n","d","e","s","c","r","i","p","t","i","o","n",":"," ","\"">> \o description
      \o <<"\"","\n","d","a","t","e",":"," ","\"">> \o date \o <<"\"","\n","t","a","g","s",":"," ","[">> \o Join(QuoteAll(tags), <<","," ">>)
      \o <<"]","\n","c","a","t","e","g","o","r","y",":"," ","\"">> \o finalCategory \o <<"\"">>
      \o (IF Len(severity) > 0 THEN <<"\n","s","e","v","e","r","i","t","y",":"," ","\"">> \o severity \o <<"\"">> ELSE <<>>)
      \o <<"\n","-","-","-">>

\* const actualFrontmatter = existingFrontmatter || extractedFrontmatter
ActualFrontmatter(rawText, existingFrontmatter) ==
  IF ~existingFrontmatter.isNull THEN existingFrontmatter ELSE extractFrontmatter(rawText).frontmatter

\* const contentToParse = extractedFrontmatter ? contentWithoutFrontmatter : rawText
ContentToParse(rawText) ==
  LET extracted == extractFrontmatter(rawText)
  IN  IF ~extracted.frontmatter.isNull THEN extracted.contentWithoutFrontmatter ELSE rawText

\* actualFrontmatter.tags || []
ExistingTags(actualFrontmatter) ==
  IF HasKey(actualFrontmatter.entries, <<"t","a","g","s">>) /\ Truthy(GetKey(actualFrontmatter.entries, <<"t","a","g","s">>))
  THEN GetKey(actualFrontmatter.entries, <<"t","a","g","s">>) ELSE ArrVal(<<>>)

\* the branch of generateMDX that copies existing frontmatter
ExistingResult(actualFrontmatter, parsed) ==
  IF parsed.thrown THEN Thrown
  ELSE Returned(ExistingFrontMatter(actualFrontmatter) \o <<"\n">> \o buildBody(parsed.sections),
                ExistingTags(actualFrontmatter), <<>>)

\* the document with the warnings validateMDX gives for it
ValidatedResult(mdx, tags) == Returned(mdx, ArrVal(tags), validateMDXWarnings(mdx))

\* the branch of generateMDX that generates the frontmatter
GeneratedResult(parsed, tags, title, category, severity, date) ==
  IF parsed.thrown THEN Thrown
  ELSE ValidatedResult(GeneratedFrontMatter(parsed.sections, tags, title, category, severity, date)
                       \o <<"\n">> \o buildBody(parsed.sections), tags)

ConvertContent(actualFrontmatter, contentToParse, title, category, severity, date) ==
  IF ~actualFrontmatter.isNull
  THEN ExistingResult(actualFrontmatter, parseIncidentText(contentToParse))
  ELSE GeneratedResult(parseIncidentText(contentToParse), extractTags(contentToParse),
                       title, category, severity, date)

generateMDX(rawText, title, category, severity, existingFrontmatter, date) ==
  ConvertContent(ActualFrontmatter(rawText, existingFrontmatter), ContentToParse(rawText),
                 title, category, severity, date)

(***************************************************************************)
(* POST /api/convert                                                       *)
(*                                                                         *)
(* request.json is what request.json() gives: "invalid" when it rejects    *)
(* (the body is no JSON text), "null" for the JSON value null, "object"    *)
(* for an object with the fields below.  rawText.kind is "missing" for an  *)
(* absent field, "other" for a value that is no string, "string" for a     *)
(* string.                                                                 *)
(***************************************************************************)
VARIABLES request, today, response, fixLines, fixResult, call, ret, runs, tagRules

vars == <<request, today, response, fixLines, fixResult, call, ret, runs, tagRules>>

\* call is one function of the route called on its own with argument arg,
\* ret is what it returned
NoCall == [op |-> "none", arg |-> <<>>]

NoReturn == [done |-> FALSE, value |-> <<>>]

NoResponse == [status |-> 0, error |-> "", mdx |-> <<>>, tags |-> ArrVal(<<>>), warnings |-> <<>>]

ErrorResponse(status, error) ==
  [status |-> status, error |-> error, mdx |-> <<>>, tags |-> ArrVal(<<>>), warnings |-> <<>>]

\* the response for the return value of generateMDX, or for its exception
ResultResponse(result) ==
  IF result.thrown THEN ErrorResponse(500, "Internal server error")
  ELSE [status |-> 200, error |-> "", mdx |-> result.mdx, tags |-> result.tags, warnings |-> result.warnings]

PostResponse(req, date) ==
  IF req.json # "object" THEN ErrorResponse(500, "Internal server error")
  ELSE IF req.rawText.kind # "string" \/ Len(req.rawText.str) = 0
    THEN ErrorResponse(400, "rawText is required and must be a string")
  ELSE IF Len(Trim(req.rawText.str)) = 0 THEN ErrorResponse(400, "rawText cannot be empty")
  ELSE ResultResponse(generateMDX(req.rawText.str, req.title, req.category, req.severity, req.frontmatter, date))

POST ==
  /\ response.status = 0
  /\ request.json # "none"
  /\ response' = PostResponse(request, today)
  /\ UNCHANGED <<request, today, fixLines, fixResult, call, ret, runs, tagRules>>

(***************************************************************************)
(* buildFixSection called on its own                                       *)
(***************************************************************************)
NoResult == [done |-> FALSE, text |-> <<>>]

BuildFix ==
  /\ ~fixResult.done
  /\ Len(fixLines) > 0
  /\ fixResult' = [done |-> TRUE, text |-> buildFixSection(fixLines)]
  /\ UNCHANGED <<request, today, response, fixLines, call, ret, runs, tagRules>>

(***************************************************************************)
(* Inputs                                                                  *)
(***************************************************************************)
\* longest request body, in lines after the metadata block
MaxBodyLines == 3

\* longest Fix section, in items
MaxFixItems == 3

SeqsUpTo(S, n) == UNION {[1..k -> S] : k \in 0..n}

BodyLinePalette ==
  { <<"I","S","S","U","E">>, <<"F","i","n","a","l"," ","N","o","t","e",":">>, <<"S","y","m","p","t","o","m","s">>, <<"#","#"," ","N","o","t","e","s">>, <<"O","u","t","a","g","e"," ","i","s"," ","c","r","i","t","i","c","a","l",".">>, <<"[","[","T","A","B","L","E","]","]">>, <<"a","\t","b">> }

Bodies == SeqsUpTo(BodyLinePalette, MaxBodyLines)

\* a request that opens with a metadata block carries one body line fewer
BlockBodies == SeqsUpTo(BodyLinePalette, MaxBodyLines - 1)

CanonicalBlock == <<<<"-","-","-">>, <<"s","e","v","e","r","i","t","y",":"," ","\"","L","o","w","\"">>, <<"t","a","g","s",":"," ","[","\"","A","z","u","r","e","\"",","," ","\"","O","p","s","\"","]">>, <<"-","-","-">>>>

BracketBlock == <<<<"-","-","-">>, <<"t","i","t","l","e",":"," ","\"","[","P","1","]","\"">>, <<"-","-","-">>>>

\* a block whose tags value is a scalar
ScalarTagsBlock == <<<<"-","-","-">>, <<"t","a","g","s",":"," ","o","p","s">>, <<"-","-","-">>>>

MetaBlocks == {CanonicalBlock, BracketBlock, ScalarTagsBlock}

SuppliedFrontmatter ==
  Object(<< [key |-> <<"t","i","t","l","e">>, value |-> StrVal(<<"E","x","p","o","s","u","r","e">>)],
            [key |-> <<"s","e","v","e","r","i","t","y">>, value |-> StrVal(<<"L","o","w">>)],
            [key |-> <<"t","a","g","s">>, value |-> ArrVal(<<<<"S","e","c","u","r","i","t","y">>, <<"A","z","u","r","e">>>>)],
            [key |-> <<"p","r","i","o","r","i","t","y">>, value |-> NumVal(<<"3">>)] >>)

Args(title, category, severity, frontmatter) ==
  [title |-> title, category |-> category, severity |-> severity, frontmatter |-> frontmatter]

ArgProfiles ==
  { Args(Undefined, Undefined, Undefined, NullObject),
    Args(Undefined, <<"a","z","u","r","e","-","t","r","o","u","b","l","e","s","h","o","o","t","i","n","g">>, <<"M","e","d","i","u","m">>, NullObject),
    Args(<<"O","u","t","a","g","e">>, <<"n","e","t","w","o","r","k">>, <<"H","i","g","h">>, NullObject),
    Args(Undefined, Undefined, Undefined, SuppliedFrontmatter),
    Args(<<"O","u","t","a","g","e">>, <<"n","e","t","w","o","r","k">>, <<"H","i","g","h">>, SuppliedFrontmatter) }

ObjectRequest(rawText, args) ==
  [json |-> "object", rawText |-> rawText, title |-> args.title, category |-> args.category,
   severity |-> args.severity, frontmatter |-> args.frontmatter]

StringField(s) == [kind |-> "string", str |-> s]

NoArgs == Args(Undefined, Undefined, Undefined, NullObject)

NoRequest == [ObjectRequest(StringField(<<>>), NoArgs) EXCEPT !.json = "none"]

UnusableRequests ==
  { [ObjectRequest(StringField(<<>>), NoArgs) EXCEPT !.json = "invalid"],
    [ObjectRequest(StringField(<<>>), NoArgs) EXCEPT !.json = "null"],
    ObjectRequest([kind |-> "missing", str |-> <<>>], NoArgs),
    ObjectRequest([kind |-> "other", str |-> <<>>], NoArgs),
    ObjectRequest(StringField(<<>>), NoArgs),
    ObjectRequest(StringField(<<" "," ","\n"," ">>), NoArgs) }

Requests ==
  UnusableRequests \cup
  { ObjectRequest(StringField(Join(body, <<"\n">>)), args) :
      body \in Bodies, args \in ArgProfiles } \cup
  { ObjectRequest(StringField(Join(block \o body, <<"\n">>)), args) :
      block \in MetaBlocks, body \in BlockBodies, args \in ArgProfiles }

Dates == {<<"2","0","2","5","-","1","2","-","2","7">>}

FixItemPalette ==
  { <<"S","T","E","P"," ","1",":"," ","O","P","E","N"," ","P","O","R","T">>, <<"S","T","E","P"," ","2",":"," ","O","p","e","n"," ","p","o","r","t"," ","4","4","3",".">>, <<"D","e","t","a","i","l","s"," ","h","e","r","e",".">>, <<"R","e","s","t","a","r","t"," ","t","h","e"," ","g","a","t","e","w","a","y">>,
    <<"|"," ","T","a","g"," ","|"," ","U","s","e"," ","|","\n","|"," ","-","-","-"," ","|"," ","-","-","-"," ","|","\n","|"," ","a"," ","|"," ","b"," ","|">> }

FixInputs == SeqsUpTo(FixItemPalette, MaxFixItems) \ {<<>>}

(***************************************************************************)
(* Specifications                                                          *)
(***************************************************************************)
Init ==
  /\ request \in Requests
  /\ today \in Dates
  /\ response = NoResponse
  /\ fixLines = <<>>
  /\ fixResult = NoResult
  /\ call = NoCall
  /\ ret = NoReturn
  /\ runs = <<>>
  /\ tagRules = TAG_RULES

Next == POST

Spec == Init /\ [][Next]_vars

InitFix ==
  /\ request = NoRequest
  /\ today \in Dates
  /\ response = NoResponse
  /\ fixLines \in FixInputs
  /\ fixResult = NoResult
  /\ call = NoCall
  /\ ret = NoReturn
  /\ runs = <<>>
  /\ tagRules = TAG_RULES

NextFix == BuildFix

SpecFix == InitFix /\ [][NextFix]_vars

TypeOK ==
  /\ response.status \in {0, 200, 400, 500}
  /\ fixResult.done \in BOOLEAN

(***************************************************************************)
(* Functions of route.ts called on their own                               *)
(*                                                                         *)
(* call.op names the function, call.arg is its argument, ret.value what it *)
(* returned.                                                               *)
(***************************************************************************)
\* longest block handed to isTableLike, in lines
MaxBlockLines == 3

\* longest text handed to extractFrontmatter and generateMDX, in lines
MaxTextLines == 4

\* most items in one section handed to buildBody
MaxSectionItems == 1

\* longest section handed to buildSection, in items
MaxSectionLines == 3

\* longest run of '#' before a header name
MaxHashes == 2

\* longest text handed to parseIncidentText, in lines
MaxParseLines == 4

TableBlocks ==
  SeqsUpTo({ <<"a","\t","b">>, <<"a","\t","b","\t","c">>, <<"a","\t","b","\t","c","\t","d">>, <<"a","\t","\t","b">>, <<"x"," "," ","y">>, <<"x"," ","y">>, <<"p">>, <<"x"," "," ","y","\t","z">> },
           MaxBlockLines)

Texts ==
  {Join(ls, <<"\n">>) :
     ls \in SeqsUpTo({ <<"-","-","-">>, <<" ","-","-","-"," ">>, <<>>, <<"t","i","t","l","e",":"," ","\"","D","i","s","k","\"">>, <<"t","a","g","s",":"," ","[","a",","," ","'","b","'"," ","]">>, <<"I","S","S","U","E">>, <<"D","i","s","k"," ","f","u","l","l">> },
                     MaxTextLines)}

\* the sections of a text with content under at most two headers
ParsedPalette ==
  LET items == SeqsUpTo({ <<"R","e","s","t","a","r","t"," ","t","h","e"," ","g","a","t","e","w","a","y">>, <<"(","N","o"," ","d","a","t","a"," ","c","a","p","t","u","r","e","d"," ","i","n"," ","i","n","c","i","d","e","n","t"," ","n","o","t","e","s",".",")">>,
                          <<"(","N","o"," ","f","i","x"," ","s","t","e","p","s"," ","c","a","p","t","u","r","e","d"," ","i","n"," ","i","n","c","i","d","e","n","t"," ","n","o","t","e","s",".",")">>, <<"(","N","o"," ","p","r","e","v","e","n","t","i","o","n"," ","s","t","e","p","s"," ","c","a","p","t","u","r","e","d",".",")">>,
                          <<"|"," ","T","a","g"," ","|"," ","U","s","e"," ","|","\n","|"," ","-","-","-"," ","|"," ","-","-","-"," ","|","\n","|"," ","a"," ","|"," ","b"," ","|">> }, MaxSectionItems)
  IN  {[EmptySections EXCEPT ![j] = a, ![k] = b] : j \in SectionKeys, k \in SectionKeys, a \in items, b \in items}

\* the lines of testNestedBullets; parseMarkedText keeps them without the empty ones
NestedBulletLines ==
  << <<"T","a","g","g","i","n","g"," ","w","a","s"," ","t","r","e","a","t","e","d"," ","a","s"," ","o","p","t","i","o","n","a","l"," ","d","u","r","i","n","g"," ","r","e","s","o","u","r","c","e"," ","c","r","e","a","t","i","o","n",".">>,
     <<>>,
     <<"B","e","c","a","u","s","e"," ","o","f"," ","t","h","i","s",":">>,
     <<"R","e","s","o","u","r","c","e"," ","o","w","n","e","r","s","h","i","p"," ","w","a","s"," ","u","n","c","l","e","a","r">>,
     <<"B","i","l","l","i","n","g"," ","r","e","p","o","r","t","s"," ","g","r","o","u","p","e","d"," ","a","l","l"," ","c","o","s","t","s"," ","u","n","d","e","r"," ","\"","u","n","t","a","g","g","e","d","\"">>,
     <<"C","o","m","p","l","i","a","n","c","e"," ","a","u","d","i","t","s"," ","f","a","i","l","e","d"," ","d","u","e"," ","t","o"," ","m","i","s","s","i","n","g"," ","m","e","t","a","d","a","t","a">>,
     <<>>,
     <<"T","h","i","s"," ","c","r","e","a","t","e","d"," ","d","o","w","n","s","t","r","e","a","m"," ","i","s","s","u","e","s",".">> >>

SectionInputs ==
  SeqsUpTo({ <<"S","t","e","p","s",":">>, <<"R","e","s","t","a","r","t"," ","t","h","e"," ","g","a","t","e","w","a","y">>, <<"-"," ","k","e","p","t">>, <<"*"," ","s","t","a","r","r","e","d">>, <<BulletDot>> \o <<" ","d","o","t","t","e","d">>,
             <<"-","-","f","o","r","c","e"," ","f","l","a","g">>, <<"1","."," ","C","h","e","c","k"," ","l","o","g","s",":">>, <<"2","."," ","R","e","t","r","y">>, <<"|"," ","T","a","g"," ","|"," ","U","s","e"," ","|","\n","|"," ","-","-","-"," ","|"," ","-","-","-"," ","|","\n","|"," ","a"," ","|"," ","b"," ","|">> }, MaxSectionLines)
  \cup {NestedBulletLines, SelectSeq(NestedBulletLines, LAMBDA line : line # <<>>)}

\* a prefix, a name and a suffix
HeaderLines ==
  LET prefixes == {[i \in 1..n |-> "#"] \o sp : n \in 0..MaxHashes, sp \in {<<>>, <<" ">>}} \cup {<<"#"," ","#"," ">>, <<"-"," ">>}
      names == { <<"I","S","S","U","E">>, <<"I","m","p","a","c","t">>, <<"r","o","o","t"," ","c","a","u","s","e">>, <<"R","o","o","t"," "," ","C","a","u","s","e">>, <<"R","E","S","O","L","U","T","I","O","N">>, <<"F","i","x">>, <<"F","i","x","e","s">>,
                 <<"V","a","l","i","d","a","t","i","o","n">>, <<"L","e","s","s","o","n"," ","L","e","a","r","n","e","d">>, <<"L","E","S","S","O","N","S"," ","L","E","A","R","N","E","D">>, <<"P","r","e","v","e","n","t","i","o","n">>, <<"F","i","n","a","l"," ","N","o","t","e">>,
                 <<"f","i","n","a","l"," ","n","o","t","e","s">>, <<"S","y","m","p","t","o","m","s">>, <<"N","o","t","e","s">>, <<>> }
      suffixes == {<<>>, <<":">>, <<FullwidthColon>>, <<":"," ">>, <<" ",":">>, <<":",":">>, <<":"," ","x">>}
  IN  {p \o n \o s : p \in prefixes, n \in names, s \in suffixes}

ParseTexts ==
  {Join(ls, <<"\n">>) :
     ls \in SeqsUpTo({ <<"I","S","S","U","E">>, <<"#","#"," ","I","m","p","a","c","t",":">>, <<"F","i","x">>, <<"O","u","t","a","g","e"," ","i","s"," ","c","r","i","t","i","c","a","l",".">>, <<" "," ","S","y","m","p","t","o","m","s"," "," ">>, <<>>,
                       <<"[","[","S","E","C","T","I","O","N",":","I","M","P","A","C","T","]","]">>, <<"a","\t","b">> }, MaxParseLines)}

TableOf(lookAheadLines) ==
  IF isTableLike(lookAheadLines)
  THEN [accepted |-> TRUE, table |-> linesToMarkdownTable(lookAheadLines)]
  ELSE [accepted |-> FALSE, table |-> <<>>]

RecognizeTable ==
  /\ call.op = "isTableLike"
  /\ ~ret.done
  /\ ret' = [done |-> TRUE, value |-> TableOf(call.arg)]
  /\ UNCHANGED <<request, today, response, fixLines, fixResult, call, runs, tagRules>>

LinesToMarkdownTable ==
  /\ call.op = "linesToMarkdownTable"
  /\ ~ret.done
  /\ ret' = [done |-> TRUE, value |-> linesToMarkdownTable(call.arg)]
  /\ UNCHANGED <<request, today, response, fixLines, fixResult, call, runs, tagRules>>

ExtractFrontmatter ==
  /\ call.op = "extractFrontmatter"
  /\ ~ret.done
  /\ ret' = [done |-> TRUE, value |-> extractFrontmatter(call.arg)]
  /\ UNCHANGED <<request, today, response, fixLines, fixResult, call, runs, tagRules>>

\* generateMDX(rawText) with no title, category, severity or frontmatter argument
GenerateMDX ==
  /\ call.op = "generateMDX"
  /\ ~ret.done
  /\ ret' = [done |-> TRUE,
             value |-> generateMDX(call.arg, Undefined, Undefined, Undefined, NullObject, today)]
  /\ UNCHANGED <<request, today, response, fixLines, fixResult, call, runs, tagRules>>

BuildBody ==
  /\ call.op = "buildBody"
  /\ ~ret.done
  /\ ret' = [done |-> TRUE, value |-> buildBody(call.arg)]
  /\ UNCHANGED <<request, today, response, fixLines, fixResult, call, runs, tagRules>>

BuildSection ==
  /\ call.op = "buildSection"
  /\ ~ret.done
  /\ ret' = [done |-> TRUE, value |-> buildSection(call.arg)]
  /\ UNCHANGED <<request, today, response, fixLines, fixResult, call, runs, tagRules>>

DetectSectionHeader ==
  /\ call.op = "detectSectionHeader"
  /\ ~ret.done
  /\ ret' = [done |-> TRUE, value |-> detectSectionHeader(call.arg)]
  /\ UNCHANGED <<request, today, response, fixLines, fixResult, call, runs, tagRules>>

ParseIncidentText ==
  /\ call.op = "parseIncidentText"
  /\ ~ret.done
  /\ ret' = [done |-> TRUE, value |-> parseIncidentText(call.arg)]
  /\ UNCHANGED <<request, today, response, fixLines, fixResult, call, runs, tagRules>>

InitCall ==
  /\ request = NoRequest
  /\ today \in Dates
  /\ response = NoResponse
  /\ fixLines = <<>>
  /\ fixResult = NoResult
  /\ \/ call \in {[op |-> o, arg |-> b] : o \in {"isTableLike", "linesToMarkdownTable"}, b \in TableBlocks}
     \/ call \in {[op |-> o, arg |-> t] : o \in {"extractFrontmatter", "generateMDX"}, t \in Texts}
     \/ call \in {[op |-> "buildBody", arg |-> p] : p \in ParsedPalette}
     \/ call \in {[op |-> "buildSection", arg |-> ls] : ls \in SectionInputs}
     \/ call \in {[op |-> "detectSectionHeader", arg |-> l] : l \in HeaderLines}
     \/ call \in {[op |-> "parseIncidentText", arg |-> t] : t \in ParseTexts}
  /\ ret = NoReturn
  /\ runs = <<>>
  /\ tagRules = TAG_RULES

NextCall ==
  \/ RecognizeTable
  \/ LinesToMarkdownTable
  \/ ExtractFrontmatter
  \/ GenerateMDX
  \/ BuildBody
  \/ BuildSection
  \/ DetectSectionHeader
  \/ ParseIncidentText

SpecCall == InitCall /\ [][NextCall]_vars

(***************************************************************************)
(* Several generateMDX invocations in progress at once                     *)
(*                                                                         *)
(* runs[i] holds the local variables of invocation i and pc, the statement *)
(* of generateMDX it has reached.  tagRules is TAG_RULES of tagger.ts, the *)
(* one module-level value the invocations read.                            *)
(***************************************************************************)
\* most invocations in progress at once
MaxInvocations == 2

\* extractTags dropping from the table the rules it has applied
TagRulesAfterConsumed(rules, text) ==
  SelectSeq(rules, LAMBDA rule :
    \A k \in 1..Len(rule.keywords) : ~Includes(ToLowerCase(text), rule.keywords[k]))

\* TAG_RULES after extractTags(text): the loop over the rules reads them and assigns nothing
TagRulesAfter(rules, text) == rules

\* const actualFrontmatter = ...; const contentToParse = ...
ExtractStep(i) ==
  /\ runs[i].pc = "start"
  /\ runs' = [runs EXCEPT ![i].pc = "extracted",
                          ![i].actualFrontmatter = ActualFrontmatter(runs[i].rawText, NullObject),
                          ![i].contentToParse = ContentToParse(runs[i].rawText)]
  /\ UNCHANGED <<request, today, response, fixLines, fixResult, call, ret, tagRules>>

\* const tags = extractTags(contentToParse)
TagStep(i) ==
  /\ runs[i].pc = "extracted"
  /\ runs[i].actualFrontmatter.isNull
  /\ runs' = [runs EXCEPT ![i].pc = "tagged", ![i].tags = TagsFor(tagRules, runs[i].contentToParse)]
  /\ tagRules' = TagRulesAfter(tagRules, runs[i].contentToParse)
  /\ UNCHANGED <<request, today, response, fixLines, fixResult, call, ret>>

\* const parsed = parseIncidentText(contentToParse), on either branch
ParseStep(i) ==
  /\ \/ runs[i].pc = "tagged"
     \/ runs[i].pc = "extracted" /\ ~runs[i].actualFrontmatter.isNull
  /\ runs' = [runs EXCEPT ![i].pc = "parsed", ![i].parsed = parseIncidentText(runs[i].contentToParse)]
  /\ UNCHANGED <<request, today, response, fixLines, fixResult, call, ret, tagRules>>

\* the frontmatter, the body, the validation and the return of either branch
FinishStep(i) ==
  /\ runs[i].pc = "parsed"
  /\ runs' = [runs EXCEPT ![i].pc = "done",
                          ![i].result = IF ~runs[i].actualFrontmatter.isNull
                                        THEN ExistingResult(runs[i].actualFrontmatter, runs[i].parsed)
                                        ELSE GeneratedResult(runs[i].parsed, runs[i].tags,
                                                             Undefined, Undefined, Undefined, today)]
  /\ UNCHANGED <<request, today, response, fixLines, fixResult, call, ret, tagRules>>

InitRuns ==
  /\ request = NoRequest
  /\ today \in Dates
  /\ response = NoResponse
  /\ fixLines = <<>>
  /\ fixResult = NoResult
  /\ call = NoCall
  /\ ret = NoReturn
  /\ LET texts == { <<"I","S","S","U","E","\n","A","F","D"," ","o","u","t","a","g","e"," ","o","n"," ","t","h","e"," ","f","r","o","n","t"," ","d","o","o","r",".">>,
                    <<"I","S","S","U","E","\n","D","i","s","k"," ","f","u","l","l",".","\n","F","I","X","\n","S","T","E","P"," ","1",":"," ","F","r","e","e"," ","s","p","a","c","e">>,
                    <<"-","-","-","\n","t","i","t","l","e",":"," ","\"","D","i","s","k","\"","\n","-","-","-","\n","I","S","S","U","E","\n","B","l","o","b"," ","l","o","s","t">> }
         newRun(rawText) ==
           [rawText |-> rawText, pc |-> "start", actualFrontmatter |-> NullObject, contentToParse |-> <<>>,
            tags |-> <<>>, parsed |-> [thrown |-> FALSE, sections |-> EmptySections],
            result |-> Returned(<<>>, ArrVal(<<>>), <<>>)]
     IN  runs \in UNION {[1..n -> {newRun(t) : t \in texts}] : n \in 1..MaxInvocations}
  /\ tagRules = TAG_RULES

NextRuns ==
  \E i \in 1..Len(runs) : ExtractStep(i) \/ TagStep(i) \/ ParseStep(i) \/ FinishStep(i)

SpecRuns == InitRuns /\ [][NextRuns]_vars

(***************************************************************************)
(* Observations of a response, used by the properties below                *)
(***************************************************************************)
OutLines == Split(response.mdx, "\n")

\* index of the line that closes the frontmatter of a document given by its lines
FrontMatterEnd(lines) == MinOf({i \in 2..Len(lines) : lines[i] = <<"-","-","-">>})

OutFrontMatter == LET lines == OutLines IN SubSeq(lines, 2, FrontMatterEnd(lines) - 1)

OutBody == LET lines == OutLines IN SubSeq(lines, FrontMatterEnd(lines) + 1, Len(lines))

\* the key of a frontmatter line: the text before its first colon
LineKey(line) == Trim(SubSeq(line, 1, IndexOfChar(line, ":") - 1))

RequestText == request.rawText.str

RequestParsed == parseIncidentText(ContentToParse(RequestText)).sections

RequestMetadata == ActualFrontmatter(RequestText, request.frontmatter)

CanonicalHeadings ==
  <<<<"#","#"," ","I","s","s","u","e">>, <<"#","#"," ","I","m","p","a","c","t">>, <<"#","#"," ","R","o","o","t"," ","C","a","u","s","e">>, <<"#","#"," ","F","i","x">>, <<"#","#"," ","V","a","l","i","d","a","t","i","o","n">>, <<"#","#"," ","L","e","s","s","o","n","s"," ","L","e","a","r","n","e","d">>, <<"#","#"," ","P","r","e","v","e","n","t","i","o","n">>>>

FinalNoteHeading == <<"#","#"," ","F","i","n","a","l"," ","N","o","t","e">>

SectionHeadings == {CanonicalHeadings[i] : i \in 1..Len(CanonicalHeadings)} \cup {FinalNoteHeading}

SeqToSet(s) == {s[i] : i \in 1..Len(s)}

\* a line that Markdown reads as a level-2 heading
IsLevel2Heading(line) ==
  LET t == DropWhile(line, {" "})
  IN  StartsWith(t, <<"#","#">>) /\ (Len(t) = 2 \/ t[3] # "#")

(***************************************************************************)
(* C1: in the body of every document the seven headings Issue, Impact,     *)
(* Root Cause, Fix, Validation, Lessons Learned, Prevention occur exactly  *)
(* once each and in that order, Prevention also for an empty section, and  *)
(* the Final Note heading follows them once exactly when the finalNote     *)
(* section has an item.                                                    *)
(***************************************************************************)
C1_HeadingsOnceInOrder ==
  response.status = 200 =>
    SelectSeq(OutBody, LAMBDA l : l \in SectionHeadings)
      = IF Len(RequestParsed["finalNote"]) > 0
        THEN Append(CanonicalHeadings, FinalNoteHeading) ELSE CanonicalHeadings

C1_Witness ==
  /\ response.status = 200
  /\ LET parsed == RequestParsed
     IN  Len(parsed["finalNote"]) > 0 /\ Len(parsed["prevention"]) = 0
  /\ FinalNoteHeading \in SeqToSet(OutBody)

(***************************************************************************)
(* C2: the section set is closed: every level-2 heading of the body is one *)
(* of the eight fixed headings, so a line such as Symptoms or ## Notes of  *)
(* the input never becomes a heading.                                      *)
(***************************************************************************)
C2_ClosedSectionSet ==
  response.status = 200 =>
    LET body == OutBody
    IN  \A i \in 1..Len(body) : IsLevel2Heading(body[i]) => body[i] \in SectionHeadings

C2_Witness ==
  /\ response.status = 200
  /\ LET parsed == RequestParsed
     IN  \E k \in SectionKeys : {<<"S","y","m","p","t","o","m","s">>, <<"#","#"," ","N","o","t","e","s">>} \subseteq SeqToSet(parsed[k])

(***************************************************************************)
(* C3: every non-blank line that is no recognized header and follows a     *)
(* recognized header ends up in the section of the most recent header, as  *)
(* a content item or as a row of a table item: per section, the lines of   *)
(* the input and the lines held by the items are equally many, and each    *)
(* input line is found among the items of its section.                     *)
(***************************************************************************)
ContentLines == Split(ContentToParse(RequestText), "\n")

ActiveSection(lines, i) ==
  LET hs == {j \in 1..(i - 1) : detectSectionHeader(lines[j]) # NoSection}
  IN  IF hs = {} THEN NoSection ELSE detectSectionHeader(lines[MaxOf(hs)])

LinesOfSection(lines, k) ==
  {i \in 1..Len(lines) : /\ Len(Trim(lines[i])) > 0
                         /\ detectSectionHeader(lines[i]) = NoSection
                         /\ ActiveSection(lines, i) = k}

\* source lines held by an item: one for a content line, one per row of a
\* grid without its separator row
RECURSIVE HeldLines(_)
HeldLines(items) ==
  IF Len(items) = 0 THEN 0
  ELSE (IF HasChar(items[1], "\n") THEN Len(Split(items[1], "\n")) - 1 ELSE 1) + HeldLines(Tail(items))

HoldsLine(item, line) ==
  \/ item = Trim(line)
  \/ HasChar(item, "\n") /\ Includes(item, <<"|"," ">> \o Join(TableCells(Trim(line)), <<" ","|"," ">>))

C3_ContentKeptInActiveSection ==
  response.status = 200 =>
    LET parsed == RequestParsed
        lines == ContentLines
    IN  \A k \in SectionKeys :
          LET own == LinesOfSection(lines, k)
          IN  /\ Cardinality(own) = HeldLines(parsed[k])
              /\ \A i \in own : \E n \in 1..Len(parsed[k]) : HoldsLine(parsed[k][n], lines[i])

(***************************************************************************)
(* C4: round trip of metadata: the metadata block of the document is the   *)
(* input block, line for line, when the block leads rawText, and has the   *)
(* keys, the order and the values of the frontmatter argument when that    *)
(* is given.                                                               *)
(***************************************************************************)
InputLines == Split(RequestText, "\n")

InputBlock ==
  LET lines == InputLines
  IN  SubSeq(lines, 2, MinOf({i \in 2..Len(lines) : Trim(lines[i]) = <<"-","-","-">>}) - 1)

SameValue(given, read) ==
  CASE given.kind = "string" -> read = StrVal(given.str)
    [] given.kind = "array" -> read = ArrVal(given.arr)
    [] given.kind = "other" -> read = StrVal(given.str)

C4_MetadataRoundTrip ==
  response.status = 200 =>
    /\ (request.frontmatter.isNull /\ ~RequestMetadata.isNull) => OutFrontMatter = InputBlock
    /\ ~request.frontmatter.isNull =>
         LET read == ParseFrontmatterLines(OutFrontMatter, 1, <<>>)
             given == request.frontmatter.entries
         IN  /\ Len(read) = Len(given)
             /\ \A i \in 1..Len(given) :
                  read[i].key = given[i].key /\ SameValue(given[i].value, read[i].value)

(***************************************************************************)
(* C5: when metadata exists, supplied by the caller or extracted from the  *)
(* text, the frontmatter of the document has exactly the keys of that      *)
(* metadata, in its order, and the severity line carries the severity of   *)
(* the metadata, whatever the text says and whatever title, category and   *)
(* severity arguments come with the request.                               *)
(***************************************************************************)
C5_FrontmatterFromMetadataOnly ==
  (response.status = 200 /\ ~RequestMetadata.isNull) =>
    LET entries == RequestMetadata.entries
        out == OutFrontMatter
    IN  /\ Len(out) = Len(entries)
        /\ \A i \in 1..Len(entries) :
             /\ LineKey(out[i]) = entries[i].key
             /\ (entries[i].key = <<"s","e","v","e","r","i","t","y">> /\ entries[i].value.kind = "string")
                  => out[i] = <<"s","e","v","e","r","i","t","y",":"," ","\"">> \o entries[i].value.str \o <<"\"">>

C5_Witness ==
  /\ response.status = 200
  /\ ~request.frontmatter.isNull
  /\ request.severity = <<"H","i","g","h">>
  /\ request.title = <<"O","u","t","a","g","e">>
  /\ Includes(RequestText, <<"c","r","i","t","i","c","a","l">>)
  /\ <<"s","e","v","e","r","i","t","y",":"," ","\"","L","o","w","\"">> \in SeqToSet(OutFrontMatter)

(***************************************************************************)
(* C6: a document made from an input without a metadata block has no       *)
(* severity key in its frontmatter.                                        *)
(***************************************************************************)
C6_NoSeverityWithoutMetadata ==
  (response.status = 200 /\ RequestMetadata.isNull) =>
    LET out == OutFrontMatter
    IN  \A i \in 1..Len(out) : LineKey(out[i]) # <<"s","e","v","e","r","i","t","y">>

UnusableInput(req) ==
  req.json # "object" \/ req.rawText.kind # "string" \/ Len(Trim(req.rawText.str)) = 0

C8_OnlyEmptyInputFails ==
  response.status # 0 =>
    IF UnusableInput(request)
    THEN /\ response.status \in 400..499
         /\ response.mdx = <<>> /\ response.tags = ArrVal(<<>>) /\ response.warnings = <<>>
    ELSE response.status = 200 /\ Len(response.mdx) > 0

(***************************************************************************)
(* C9: every Fix line of the form STEP n: title is rendered as the         *)
(* level-3 heading of its title alone, and no rendered heading contains    *)
(* the STEP n: text of a marker.                                           *)
(***************************************************************************)
FixResultLines == Split(fixResult.text, "\n")

\* a content line STEP n: title with a non-empty title
IsStepLine(line) == NoLineTerminator(line) /\ \E e \in StepPrefixEnds(line) : e < Len(line)

StepTitle(line) == StepMatch(line)[1]

\* the STEP n: text of a step line
StepMarker(line) == Trim(SubSeq(line, 1, Len(line) - Len(StepTitle(line))))

C9_StepLinesBecomeCleanHeadings ==
  fixResult.done =>
    LET out == FixResultLines
    IN  \A i \in 1..Len(fixLines) :
          IsStepLine(fixLines[i]) =>
            /\ (<<"#","#","#"," ">> \o StepTitle(fixLines[i])) \in SeqToSet(out)
            /\ \A n \in 1..Len(out) :
                 StartsWith(out[n], <<"#","#","#">>) => ~Includes(out[n], StepMarker(fixLines[i]))

(***************************************************************************)
(* C10: a Fix section of k STEP lines, each followed by one or more        *)
(* narrative lines, is rendered as exactly k level-3 headings in input     *)
(* order, with every narrative line a bullet under the heading of the      *)
(* nearest STEP line before it.                                            *)
(***************************************************************************)
IsNarrativeLine(item) == NoLineTerminator(item) /\ ~IsStepLine(item) /\ ~IsTableItem(item)

StepsWithNarrative(items) ==
  /\ Len(items) > 0
  /\ IsStepLine(items[1])
  /\ IsNarrativeLine(items[Len(items)])
  /\ \A i \in 1..Len(items) : IsStepLine(items[i]) \/ IsNarrativeLine(items[i])
  /\ \A i \in 1..(Len(items) - 1) : IsStepLine(items[i]) => IsNarrativeLine(items[i + 1])

C10_StepsOwnTheirNarrative ==
  (fixResult.done /\ StepsWithNarrative(fixLines)) =>
    SelectSeq(FixResultLines, LAMBDA l : Len(l) > 0)
      = [i \in 1..Len(fixLines) |->
           IF IsStepLine(fixLines[i]) THEN <<"#","#","#"," ">> \o StepTitle(fixLines[i]) ELSE <<"-"," ">> \o fixLines[i]]

(***************************************************************************)
(* C11: a Fix section without STEP marker and without table is rendered    *)
(* as one ordinary bullet per content line, the line with its own bullet   *)
(* or number prefix stripped, and has no level-3 heading.                  *)
(***************************************************************************)
PlainFixLines(items) == Len(items) > 0 /\ \A i \in 1..Len(items) : IsNarrativeLine(items[i])

C11_PlainFixLinesAreBullets ==
  (fixResult.done /\ PlainFixLines(fixLines)) =>
    LET out == FixResultLines
    IN  /\ out = [i \in 1..Len(fixLines) |-> <<"-"," ">> \o StripNumber(StripBullet(fixLines[i]))]
        /\ \A n \in 1..Len(out) : ~StartsWith(out[n], <<"#","#","#">>)

(***************************************************************************)
(* C12: isTableLike accepts a block exactly when it has at least 2 lines,  *)
(* every line contains a tab or every line contains a run of 2 or more     *)
(* spaces, the least column count is at least 2 and the greatest exceeds   *)
(* the least by at most 1.                                                 *)
(***************************************************************************)
HasSpaceRun(line) == \E i \in 1..(Len(line) - 1) : line[i] = " " /\ line[i + 1] = " "

SameDelimiterFamily(block) ==
  \/ \A i \in 1..Len(block) : HasChar(block[i], "\t")
  \/ \A i \in 1..Len(block) : HasSpaceRun(block[i])

BlockColumnCounts(block) == {ColumnCount(block[i]) : i \in 1..Len(block)}

C12_TableLikeIffCriteria ==
  (call.op = "isTableLike" /\ ret.done) =>
    LET block == call.arg
    IN  ret.value.accepted <=>
          /\ Len(block) >= 2
          /\ SameDelimiterFamily(block)
          /\ MinOf(BlockColumnCounts(block)) >= 2
          /\ MaxOf(BlockColumnCounts(block)) - MinOf(BlockColumnCounts(block)) <= 1

(***************************************************************************)
(* C13: a block of at least 2 lines that all contain a tab, with column    *)
(* counts within variance 1, is accepted, and its grid has one row per     *)
(* line and as many columns as the greatest column count of the block as   *)
(* the recognizer counts it.                                               *)
(***************************************************************************)
GridLines(table) == Split(table, "\n")

\* cells of one grid row: its pipes less one
GridColumns(row) == CountChar(row, "|") - 1

C13_TabBlockBecomesGrid ==
  (call.op = "isTableLike" /\ ret.done) =>
    LET block == call.arg
    IN  (/\ Len(block) >= 2
         /\ \A i \in 1..Len(block) : HasChar(block[i], "\t")
         /\ MaxOf(BlockColumnCounts(block)) - MinOf(BlockColumnCounts(block)) <= 1)
        => /\ ret.value.accepted
           /\ LET grid == GridLines(ret.value.table)
              IN  /\ Len(grid) - 1 = Len(block)
                  /\ \A r \in 1..Len(grid) : GridColumns(grid[r]) = MaxOf(BlockColumnCounts(block))

(***************************************************************************)
(* C14: when the first non-empty line of the text is a '---' line and a    *)
(* later line is a '---' line, extractFrontmatter returns metadata: the    *)
(* key:value lines between the two, in order, quotes stripped from         *)
(* scalars and a bracketed value read as a list of trimmed, quote-stripped *)
(* elements; the remaining body is the text after the closing line.        *)
(***************************************************************************)
TextLines == Split(call.arg, "\n")

IsDelimiterLine(line) == Trim(line) = <<"-","-","-">>

\* the first line that is not empty, 0 when every line is empty
FirstNonEmptyLine(lines) ==
  IF \A i \in 1..Len(lines) : lines[i] = <<>> THEN 0
  ELSE CHOOSE i \in 1..Len(lines) : lines[i] # <<>> /\ \A j \in 1..(i - 1) : lines[j] = <<>>

\* the first '---' line after line open, 0 when there is none
ClosingLine(lines, open) ==
  IF \A i \in (open + 1)..Len(lines) : ~IsDelimiterLine(lines[i]) THEN 0
  ELSE CHOOSE i \in (open + 1)..Len(lines) :
         IsDelimiterLine(lines[i]) /\ \A j \in (open + 1)..(i - 1) : ~IsDelimiterLine(lines[j])

\* the pair each line of the palette stands for
PairOfLine(line) ==
  IF line = <<"t","i","t","l","e",":"," ","\"","D","i","s","k","\"">> THEN <<[key |-> <<"t","i","t","l","e">>, value |-> StrVal(<<"D","i","s","k">>)]>>
  ELSE IF line = <<"t","a","g","s",":"," ","[","a",","," ","'","b","'"," ","]">> THEN <<[key |-> <<"t","a","g","s">>, value |-> ArrVal(<<<<"a">>, <<"b">>>>)]>>
  ELSE <<>>

RECURSIVE PairsOfLines(_, _, _)
PairsOfLines(lines, i, pairs) ==
  IF i > Len(lines) THEN pairs
  ELSE LET pair == PairOfLine(lines[i])
       IN  IF pair = <<>> \/ HasKey(pairs, pair[1].key)
           THEN PairsOfLines(lines, i + 1, pairs)
           ELSE PairsOfLines(lines, i + 1, pairs \o pair)

HasOpening(lines) ==
  FirstNonEmptyLine(lines) > 0 /\ IsDelimiterLine(lines[FirstNonEmptyLine(lines)])

HasBlock(lines) == HasOpening(lines) /\ ClosingLine(lines, FirstNonEmptyLine(lines)) > 0

C14_BlockAfterBlankLinesIsRead ==
  (call.op = "extractFrontmatter" /\ ret.done) =>
    LET lines == TextLines
        open == FirstNonEmptyLine(lines)
        close == ClosingLine(lines, open)
    IN  HasBlock(lines) =>
          /\ ret.value.frontmatter = Object(PairsOfLines(SubSeq(lines, open + 1, close - 1), 1, <<>>))
          /\ ret.value.contentWithoutFrontmatter = Join(SubSeq(lines, close + 1, Len(lines)), <<"\n">>)

\* the same for a text whose first line is the opening line and that has a third line
C14_FirstLineBlockIsRead ==
  (call.op = "extractFrontmatter" /\ ret.done) =>
    LET lines == TextLines
        close == ClosingLine(lines, 1)
    IN  (HasBlock(lines) /\ FirstNonEmptyLine(lines) = 1 /\ Len(lines) > 2) =>
          /\ ret.value.frontmatter = Object(PairsOfLines(SubSeq(lines, 2, close - 1), 1, <<>>))
          /\ ret.value.contentWithoutFrontmatter = Join(SubSeq(lines, close + 1, Len(lines)), <<"\n">>)

(***************************************************************************)
(* C15: for a text with no opening '---' line, or with an opening line but *)
(* no closing one, extractFrontmatter returns no metadata and the text     *)
(* unchanged, and generateMDX returns the document inferred from the whole *)
(* text.                                                                   *)
(***************************************************************************)
C15_NoBlockMeansInference ==
  (call.op \in {"extractFrontmatter", "generateMDX"} /\ ret.done /\ ~HasBlock(TextLines)) =>
        /\ call.op = "extractFrontmatter" =>
             ret.value = [frontmatter |-> NullObject, contentWithoutFrontmatter |-> call.arg]
        /\ call.op = "generateMDX" =>
             /\ ~ret.value.thrown
             /\ ret.value = GeneratedResult(parseIncidentText(call.arg), extractTags(call.arg),
                                            Undefined, Undefined, Undefined, today)

\* an unclosed block whose lines reach the Issue section of the document
C15_Witness ==
  /\ ret.done
  /\ call.op = "generateMDX"
  /\ HasOpening(TextLines)
  /\ ~HasBlock(TextLines)
  /\ ~ret.value.thrown
  /\ Includes(ret.value.mdx, <<"-"," ","t","i","t","l","e",":"," ","\"","D","i","s","k","\"">>)

(***************************************************************************)
(* C16: every successful conversion, with or without metadata, returns as  *)
(* its warnings the warnings the structural validator gives for the        *)
(* returned document.                                                      *)
(***************************************************************************)
C16_WarningsAreTheValidators ==
  response.status = 200 => response.warnings = validateMDXWarnings(response.mdx)

\* the same for the conversions that found no metadata
C16_InferenceWarningsAreTheValidators ==
  (response.status = 200 /\ RequestMetadata.isNull) =>
    response.warnings = validateMDXWarnings(response.mdx)

(***************************************************************************)
(* C17: the body rendered under a section's heading is the section's       *)
(* placeholder exactly when the section has no item: the data placeholder  *)
(* for Issue, Impact, Root Cause, Validation and Lessons Learned, the      *)
(* prevention placeholder for Prevention, the fix placeholder for Fix;     *)
(* Final Note content renders as the data placeholder exactly when it has  *)
(* no item, and what is rendered under the Final Note heading is never the *)
(* placeholder.                                                            *)
(***************************************************************************)
HeadingKeys == <<"issue", "impact", "rootCause", "fix", "validation", "lessonsLearned", "prevention">>

DataPlaceholder == <<"(","N","o"," ","d","a","t","a"," ","c","a","p","t","u","r","e","d"," ","i","n"," ","i","n","c","i","d","e","n","t"," ","n","o","t","e","s",".",")">>

Placeholder(k) ==
  IF k = "fix" THEN <<"(","N","o"," ","f","i","x"," ","s","t","e","p","s"," ","c","a","p","t","u","r","e","d"," ","i","n"," ","i","n","c","i","d","e","n","t"," ","n","o","t","e","s",".",")">>
  ELSE IF k = "prevention" THEN <<"(","N","o"," ","p","r","e","v","e","n","t","i","o","n"," ","s","t","e","p","s"," ","c","a","p","t","u","r","e","d",".",")">>
  ELSE DataPlaceholder

\* the lines of a document after the heading line up to the next section heading
LinesUnder(lines, heading) ==
  LET h == CHOOSE i \in 1..Len(lines) : lines[i] = heading
      later == {j \in (h + 1)..Len(lines) : lines[j] \in SectionHeadings}
      stop == IF later = {} THEN Len(lines) + 1 ELSE MinOf(later)
  IN  SubSeq(lines, h + 1, stop - 1)

\* those lines without the blank lines before and after them
RenderedBody(lines, heading) ==
  LET under == LinesUnder(lines, heading)
      filled == {i \in 1..Len(under) : under[i] # <<>>}
  IN  IF filled = {} THEN <<>>
      ELSE Join(SubSeq(under, MinOf(filled), MaxOf(filled)), <<"\n">>)

RenderedLines == Split(ret.value, "\n")

\* a top-level, nested or preserved bullet line
IsBulletLine(line) ==
  LET t == DropWhile(line, {" "})
  IN  Len(t) >= 2 /\ t[1] \in BulletChars /\ t[2] = " "

IsTableRow(line) == StartsWith(line, <<"|">>)

C18_BlankLineBetweenBulletAndTable ==
  (call.op = "buildSection" /\ ret.done) =>
    LET lines == RenderedLines
    IN  \A i \in 1..(Len(lines) - 1) : IsTableRow(lines[i + 1]) => ~IsBulletLine(lines[i])

\* the same for the bullets that start with a hyphen in column one
C18_BlankLineBetweenDashAndTable ==
  (call.op = "buildSection" /\ ret.done) =>
    LET lines == RenderedLines
    IN  \A i \in 1..(Len(lines) - 1) :
          IsTableRow(lines[i + 1]) => ~(IsBulletLine(lines[i]) /\ lines[i][1] = "-")

(***************************************************************************)
(* C19: detectSectionHeader gives a section key exactly when the line,     *)
(* without the white space around it, lower-cased, without a leading run   *)
(* of '#' marks and without one trailing colon, is issue, impact, root     *)
(* cause, resolution or fix (both fix), validation, lesson learned or      *)
(* lessons learned, prevention, final note or final notes; it gives no     *)
(* section for every other line.                                           *)
(***************************************************************************)
RecognizedHeaders ==
  [ issue |-> {<<"i","s","s","u","e">>}, impact |-> {<<"i","m","p","a","c","t">>}, rootCause |-> {<<"r","o","o","t"," ","c","a","u","s","e">>},
    fix |-> {<<"r","e","s","o","l","u","t","i","o","n">>, <<"f","i","x">>}, validation |-> {<<"v","a","l","i","d","a","t","i","o","n">>},
    lessonsLearned |-> {<<"l","e","s","s","o","n"," ","l","e","a","r","n","e","d">>, <<"l","e","s","s","o","n","s"," ","l","e","a","r","n","e","d">>},
    prevention |-> {<<"p","r","e","v","e","n","t","i","o","n">>}, finalNote |-> {<<"f","i","n","a","l"," ","n","o","t","e">>, <<"f","i","n","a","l"," ","n","o","t","e","s">>} ]

\* the text a line is compared by
ComparedText(line) ==
  LET t == ToLowerCase(Trim(line))
      hashes == LeadingCount(t, {"#"})
      u == IF hashes = 0 THEN t ELSE Trim(SubSeq(t, hashes + 1, Len(t)))
  IN  IF Len(u) > 0 /\ u[Len(u)] \in {":", FullwidthColon} THEN SubSeq(u, 1, Len(u) - 1) ELSE u

C19_HeaderMapping ==
  (call.op = "detectSectionHeader" /\ ret.done) =>
    LET text == ComparedText(call.arg)
    IN  /\ \A k \in SectionKeys : ret.value = k <=> text \in RecognizedHeaders[k]
        /\ ret.value = NoSection <=> \A k \in SectionKeys : text \notin RecognizedHeaders[k]

\* the synonym of fix under a heading prefix and with a fullwidth colon
C19_Witness ==
  /\ call.op = "detectSectionHeader"
  /\ ret.done
  /\ call.arg = <<"#","#"," ","R","E","S","O","L","U","T","I","O","N">> \o <<FullwidthColon>>
  /\ ret.value = "fix"

(***************************************************************************)
(* C20: a recognized header line makes its section the current one for the *)
(* content lines that follow, up to the next recognized header or the end  *)
(* of the input, and is itself no item: the items of every section are, in *)
(* input order, the content lines whose most recent recognized header is   *)
(* the header of that section.  The texts are those without a tab, whose   *)
(* lines are all content lines and no table rows.                          *)
(***************************************************************************)
\* the content lines under the headers of section k, in input order, as items
RECURSIVE ItemsUnder(_, _, _)
ItemsUnder(lines, k, i) ==
  IF i > Len(lines) THEN <<>>
  ELSE (IF i \in LinesOfSection(lines, k) THEN <<Trim(lines[i])>> ELSE <<>>)
       \o ItemsUnder(lines, k, i + 1)

C20_HeaderSwitchesSection ==
  (call.op = "parseIncidentText" /\ ret.done /\ ~HasChar(call.arg, "\t")) =>
    LET lines == Split(call.arg, "\n")
    IN  /\ ~ret.value.thrown
        /\ \A k \in SectionKeys : ret.value.sections[k] = ItemsUnder(lines, k, 1)

\* the same for the texts without a line of the shape of a section marker
C20_HeaderSwitchesSectionWithoutMarkers ==
  (call.op = "parseIncidentText" /\ ret.done /\ ~HasChar(call.arg, "\t")) =>
    LET lines == Split(call.arg, "\n")
    IN  (\A i \in 1..Len(lines) : ~IsSectionMarker(Trim(lines[i]))) =>
          /\ ~ret.value.thrown
          /\ \A k \in SectionKeys : ret.value.sections[k] = ItemsUnder(lines, k, 1)

(***************************************************************************)
(* C21: invocations of generateMDX in progress at once do not affect each  *)
(* other: whatever the interleaving of their statements, each returns the  *)
(* document, tags and warnings that generateMDX gives for its arguments    *)
(* and the date when run alone, and the keyword table stays as it was      *)
(* initialized.                                                            *)
(***************************************************************************)
C21_InvocationsAreIndependent ==
  /\ tagRules = TAG_RULES
  /\ \A i \in 1..Len(runs) :
       runs[i].pc = "done" =>
         runs[i].result = generateMDX(runs[i].rawText, Undefined, Undefined, Undefined, NullObject, today)

\* an invocation that returned its tags while another one on the same text
\* was between its tag extraction and its parse
C21_Witness ==
  /\ Len(runs) = 2
  /\ runs[1].rawText = runs[2].rawText
  /\ runs[1].pc = "done"
  /\ runs[2].pc = "tagged"
  /\ runs[1].result.tags = ArrVal(<<<<"A","z","u","r","e">>, <<"F","r","o","n","t"," ","D","o","o","r">>, <<"W","A","F">>>>)

(***************************************************************************)
(* C22: a maximal run of consecutive non-blank, non-header lines is one    *)
(* candidate block; a rejected block gives one content item per line, in   *)
(* order, in the active section, an accepted block gives exactly one table *)
(* item, and no part of a rejected block becomes a table.                  *)
(***************************************************************************)
\* the items the blocks from line i on give to section k, active being the
\* section of the most recent recognized header
RECURSIVE BlockItems(_, _, _, _)
BlockItems(lines, i, active, k) ==
  IF i > Len(lines) THEN <<>>
  ELSE IF Len(Trim(lines[i])) = 0 THEN BlockItems(lines, i + 1, active, k)
  ELSE IF detectSectionHeader(lines[i]) # NoSection
    THEN BlockItems(lines, i + 1, detectSectionHeader(lines[i]), k)
  ELSE LET j == BlockEnd(lines, i)
           block == [n \in 1..(j - i) |-> Trim(lines[i + n - 1])]
           items == IF isTableLike(block) THEN <<linesToMarkdownTable(block)>> ELSE block
       IN  (IF active = k THEN items ELSE <<>>) \o BlockItems(lines, j, active, k)

\* a rejected block one of whose lines has a tab
HasRejectedTabBlock(lines) ==
  \E i \in 1..Len(lines) :
    /\ Len(Trim(lines[i])) > 0 /\ detectSectionHeader(lines[i]) = NoSection
    /\ i = 1 \/ Len(Trim(lines[i - 1])) = 0 \/ detectSectionHeader(lines[i - 1]) # NoSection
    /\ LET j == BlockEnd(lines, i)
           block == [n \in 1..(j - i) |-> Trim(lines[i + n - 1])]
       IN  ~isTableLike(block) /\ \E n \in 1..Len(block) : HasChar(block[n], "\t")

HasMarkerLine(lines) ==
  \E i \in 1..Len(lines) : IsSectionMarker(Trim(lines[i]))

C22_BlocksAreTableOrLines ==
  (call.op = "parseIncidentText" /\ ret.done) =>
    LET lines == Split(call.arg, "\n")
    IN  \A k \in SectionKeys : ret.value.sections[k] = BlockItems(lines, 1, NoSection, k)

\* the same for the texts without a marker-shaped line and without a rejected
\* block that has a line with a tab
C22_BlocksWithoutTabsInRejected ==
  (call.op = "parseIncidentText" /\ ret.done) =>
    LET lines == Split(call.arg, "\n")
    IN  (~HasMarkerLine(lines) /\ ~HasRejectedTabBlock(lines)) =>
          \A k \in SectionKeys : ret.value.sections[k] = BlockItems(lines, 1, NoSection, k)

\* the violation of C22 on a text without a marker-shaped line
C22_NoMarkerCase ==
  (call.op = "parseIncidentText" /\ ret.done) =>
    LET lines == Split(call.arg, "\n")
    IN  ~HasMarkerLine(lines) =>
          \A k \in SectionKeys : ret.value.sections[k] = BlockItems(lines, 1, NoSection, k)

(***************************************************************************)
(* C23: the table linesToMarkdownTable makes of a block is rectangular:    *)
(* its header row, its separator row of '---' and its data rows all have   *)
(* as many cells as the widest line of the block, a shorter line being     *)
(* padded on the right with empty cells; the rows are the lines of the     *)
(* block in their order, each cell the trimmed text of the line between    *)
(* two delimiters.                                                         *)
(***************************************************************************)
\* positions of the tabs of a line, with the two ends of the line
RECURSIVE CutsFrom(_, _)
CutsFrom(line, i) ==
  IF i > Len(line) THEN <<Len(line) + 1>>
  ELSE (IF line[i] = "\t" THEN <<i>> ELSE <<>>) \o CutsFrom(line, i + 1)

\* the cells of a source line: the trimmed texts between its tabs, or
\* between its runs of two or more spaces when it has no tab
SourceCells(line) ==
  IF HasChar(line, "\t")
  THEN LET cuts == <<0>> \o CutsFrom(line, 1)
       IN  [k \in 1..(Len(cuts) - 1) |-> Trim(SubSeq(line, cuts[k] + 1, cuts[k + 1] - 1))]
  ELSE SplitMultiSpace(line)

\* a grid row of width cells that starts with the cells given
PaddedRow(cells, width) ==
  <<"|"," ">> \o Join([c \in 1..width |-> IF c <= Len(cells) THEN cells[c] ELSE <<>>], <<" ","|"," ">>) \o <<" ","|">>

C23_TablesAreRectangular ==
  (call.op = "linesToMarkdownTable" /\ ret.done /\ Len(call.arg) > 0) =>
    LET block == call.arg
        grid == GridLines(ret.value)
        width == MaxOf({Len(SourceCells(block[i])) : i \in 1..Len(block)})
    IN  /\ Len(grid) = Len(block) + 1
        /\ grid[1] = PaddedRow(SourceCells(block[1]), width)
        /\ grid[2] = PaddedRow([c \in 1..width |-> <<"-","-","-">>], width)
        /\ \A r \in 2..Len(block) : grid[r + 1] = PaddedRow(SourceCells(block[r]), width)

\* a short header line above a wider line, padded to its width
C23_Witness ==
  /\ call.op = "linesToMarkdownTable"
  /\ ret.done
  /\ call.arg = <<<<"a","\t","b">>, <<"a","\t","b","\t","c","\t","d">>>>
  /\ ret.value = <<"|"," ","a"," ","|"," ","b"," ","|"," "," ","|"," "," ","|","\n","|"," ","-","-","-"," ","|"," ","-","-","-"," ","|"," ","-","-","-"," ","|"," ","-","-","-"," ","|","\n","|"," ","a"," ","|"," ","b"," ","|"," ","c"," ","|"," ","d"," ","|">>

(***************************************************************************)
(* C24: in a non-Fix section a line that ends in a colon and is followed   *)
(* by a line that is no table is rendered as the parent bullet             *)
(* '- <marker>', directly followed by one nested bullet, indented two      *)
(* spaces, for each line up to the next such marker, the next table or the *)
(* end of the section: '  - <line>', a line that is a hyphen bullet        *)
(* already keeping its own hyphen.                                         *)
(***************************************************************************)
IsMarkerItem(item) == ~IsTableRow(item) /\ Len(item) > 0 /\ item[Len(item)] = ":"

\* the first item after item i that is a marker or a table, or the end
RunEnd(items, i) ==
  IF \A j \in (i + 1)..Len(items) : ~(IsMarkerItem(items[j]) \/ IsTableRow(items[j]))
  THEN Len(items) + 1
  ELSE CHOOSE j \in (i + 1)..Len(items) :
         /\ IsMarkerItem(items[j]) \/ IsTableRow(items[j])
         /\ \A m \in (i + 1)..(j - 1) : ~(IsMarkerItem(items[m]) \/ IsTableRow(items[m]))

NestedBullet(line) ==
  IF StartsWith(line, <<"-"," ">>) THEN <<" "," ">> \o line ELSE <<" "," ","-"," ">> \o line

C24_MarkerNestsFollowingLines ==
  (call.op = "buildSection" /\ ret.done) =>
    LET items == call.arg
        lines == RenderedLines
    IN  \A i \in 1..(Len(items) - 1) :
          (IsMarkerItem(items[i]) /\ ~IsTableRow(items[i + 1])) =>
            \E o \in 1..Len(lines) :
              /\ lines[o] = <<"-"," ">> \o items[i]
              /\ \A k \in 1..(RunEnd(items, i) - i - 1) :
                   o + k <= Len(lines) /\ lines[o + k] = NestedBullet(items[i + k])

\* the same for the sections without a line that starts with a hyphen and is no bullet
C24_MarkerNestsBulletsAndPlainLines ==
  (call.op = "buildSection" /\ ret.done) =>
    LET items == call.arg
        lines == RenderedLines
    IN  (\A i \in 1..Len(items) : StartsWith(items[i], <<"-">>) => StartsWith(items[i], <<"-"," ">>)) =>
          \A i \in 1..(Len(items) - 1) :
            (IsMarkerItem(items[i]) /\ ~IsTableRow(items[i + 1])) =>
              \E o \in 1..Len(lines) :
                /\ lines[o] = <<"-"," ">> \o items[i]
                /\ \A k \in 1..(RunEnd(items, i) - i - 1) :
                     o + k <= Len(lines) /\ lines[o + k] = NestedBullet(items[i + k])

(***************************************************************************)
(* C25: for the content paragraph, blank line, marker, three lines, blank  *)
(* line, paragraph, the rendering has exactly three lines that start with  *)
(* two spaces and a hyphen, and the last paragraph is none of them.        *)
(***************************************************************************)
IsPlainItem(item) == item # <<>> /\ ~IsMarkerItem(item) /\ ~IsTableRow(item) /\ ~StartsWith(item, <<"-">>)

IsParagraphMarkerParagraph(items) ==
  /\ Len(items) = 8
  /\ items[2] = <<>> /\ items[7] = <<>>
  /\ IsMarkerItem(items[3])
  /\ \A i \in {1, 4, 5, 6, 8} : IsPlainItem(items[i])

NestedLines(lines) == SelectSeq(lines, LAMBDA line : StartsWith(line, <<" "," ","-">>))

C25_OnlyLinesDirectlyAfterMarkerAreNested ==
  (call.op = "buildSection" /\ ret.done /\ IsParagraphMarkerParagraph(call.arg)) =>
    LET nested == NestedLines(RenderedLines)
    IN  /\ Len(nested) = 3
        /\ \A n \in 1..Len(nested) : nested[n] # <<" "," ","-"," ">> \o call.arg[8]

\* the same content as parseMarkedText delivers it, the empty lines dropped
C25_OnlyLinesDirectlyAfterMarkerAreNestedWithoutBlanks ==
  (call.op = "buildSection" /\ ret.done
     /\ call.arg = SelectSeq(NestedBulletLines, LAMBDA line : line # <<>>)) =>
    LET nested == NestedLines(RenderedLines)
    IN  /\ Len(nested) = 3
        /\ \A n \in 1..Len(nested) : nested[n] # <<" "," ","-"," ">> \o NestedBulletLines[8]

(***************************************************************************)
(* C26: in a non-Fix section a line that starts with a bullet ('- ', '* ', *)
(* the dot bullet) or with a number prefix ('1. ') is a line of the        *)
(* rendering as it stands, and every other line that is no table is the    *)
(* line '- <line>'.  The lines nested under a marker (C24) are left out.   *)
(***************************************************************************)
IsPrefixedItem(item) ==
  \/ \E b \in BulletChars : StartsWith(item, <<b, " ">>)
  \/ \E n \in 1..(Len(item) - 2) :
       /\ \A d \in 1..n : item[d] \in Digit
       /\ item[n + 1] = "." /\ item[n + 2] = " "

InNestedRun(items, i) ==
  \E j \in 1..(i - 1) :
    IsMarkerItem(items[j]) /\ ~IsTableRow(items[j + 1]) /\ i < RunEnd(items, j)

SingleLevelLine(item) == IF IsPrefixedItem(item) THEN item ELSE <<"-"," ">> \o item

C26_PrefixedLinesVerbatimOthersBulleted ==
  (call.op = "buildSection" /\ ret.done) =>
    LET items == call.arg
        lines == RenderedLines
    IN  \A i \in 1..Len(items) :
          (~IsTableRow(items[i]) /\ ~InNestedRun(items, i)) =>
            \E o \in 1..Len(lines) : lines[o] = SingleLevelLine(items[i])

\* the same for the sections in which no prefixed line is a marker with lines to nest
C26_WithoutPrefixedMarkers ==
  (call.op = "buildSection" /\ ret.done) =>
    LET items == call.arg
        lines == RenderedLines
    IN  (\A i \in 1..(Len(items) - 1) :
           ~(IsPrefixedItem(items[i]) /\ IsMarkerItem(items[i]) /\ ~IsTableRow(items[i + 1]))) =>
          \A i \in 1..Len(items) :
            (~IsTableRow(items[i]) /\ ~InNestedRun(items, i)) =>
              \E o \in 1..Len(lines) : lines[o] = SingleLevelLine(items[i])

(***************************************************************************)
(* C27: in the rendered Fix section every level-3 heading carries the text *)
(* of an item that is no table, and the table items that follow an item    *)
(* rendered as a heading stand verbatim right after that heading, one      *)
(* empty line apart, and end at the end of the section or at an empty line *)
(* before whatever is rendered next.                                       *)
(***************************************************************************)
\* the last index of the run of table items that starts at i + 1
LastTableAfter(items, i) ==
  CHOOSE j \in i..Len(items) :
    /\ \A m \in (i + 1)..j : IsTableItem(items[m])
    /\ j = Len(items) \/ ~IsTableItem(items[j + 1])

StepBlock(items, i) ==
  <<"#","#","#"," ">> \o StepTitle(items[i]) \o <<"\n","\n">> \o Join(SubSeq(items, i + 1, LastTableAfter(items, i)), <<"\n">>)

C27_TablesFollowTheirHeading ==
  fixResult.done =>
    LET out == FixResultLines
    IN  /\ \A n \in 1..Len(out) :
             StartsWith(out[n], <<"#","#","#"," ">>) =>
               \E i \in 1..Len(fixLines) :
                 ~IsTableItem(fixLines[i]) /\ out[n] = <<"#","#","#"," ">> \o StepTitle(fixLines[i])
        /\ \A i \in 1..(Len(fixLines) - 1) :
             (~IsTableItem(fixLines[i]) /\ IsTableItem(fixLines[i + 1])) =>
               LET block == StepBlock(fixLines, i)
               IN  \/ EndsWith(fixResult.text, block)
                   \/ Includes(fixResult.text, block \o <<"\n","\n">>)

\* a heading followed by two table items, and one followed by a table and a further line
C27_Witness ==
  /\ fixResult.done
  /\ Len(fixLines) = 3
  /\ IsStepLine(fixLines[1])
  /\ IsTableItem(fixLines[2])
  /\ IsTableItem(fixLines[3])
  /\ fixResult.text = StepBlock(fixLines, 1)

(***************************************************************************)
(* C28: the rendering of a non-empty Fix section is not empty and holds,   *)
(* in item order, the text of every content line and the grid of every     *)
(* table item, a table that is the first item included.                    *)
(***************************************************************************)
\* the text of an item that the rendering has to hold
KeptText(item) == IF IsTableItem(item) THEN item ELSE StripNumber(StripBullet(StepTitle(item)))

\* the texts occur one after the other in s, from position p on
RECURSIVE OccurInOrder(_, _, _)
OccurInOrder(texts, s, p) ==
  IF texts = <<>> THEN TRUE
  ELSE \E q \in p..(Len(s) - Len(texts[1]) + 1) :
         /\ SubSeq(s, q, q + Len(texts[1]) - 1) = texts[1]
         /\ OccurInOrder(Tail(texts), s, q + Len(texts[1]))

C28_NoFixItemIsLost ==
  fixResult.done =>
    /\ fixResult.text # <<>>
    /\ OccurInOrder([i \in 1..Len(fixLines) |-> KeptText(fixLines[i])], fixResult.text, 1)

\* the same for the sections that do not open with a table
C28_NoFixItemIsLostAfterALine ==
  (fixResult.done /\ ~IsTableItem(fixLines[1])) =>
    /\ fixResult.text # <<>>
    /\ OccurInOrder([i \in 1..Len(fixLines) |-> KeptText(fixLines[i])], fixResult.text, 1)

(***************************************************************************)
(* C29: the lines before the first recognized header count for nothing:    *)
(* the sections are those of the text that starts at that header (all      *)
(* empty when there is no header), and the body and the warnings of the    *)
(* document are those of the document for that text.                       *)
(***************************************************************************)
IsHeaderLine(line) == \E k \in SectionKeys : ComparedText(line) \in RecognizedHeaders[k]

FirstHeader(lines) ==
  IF \A i \in 1..Len(lines) : ~IsHeaderLine(lines[i]) THEN Len(lines) + 1
  ELSE CHOOSE i \in 1..Len(lines) :
         IsHeaderLine(lines[i]) /\ \A j \in 1..(i - 1) : ~IsHeaderLine(lines[j])

FromFirstHeader(text) ==
  LET lines == Split(text, "\n")
  IN  Join(SubSeq(lines, FirstHeader(lines), Len(lines)), <<"\n">>)

HasDelimiterLine(text) ==
  LET lines == Split(text, "\n")
  IN  \E i \in 1..Len(lines) : Trim(lines[i]) = <<"-","-","-">>

C29_ContentBeforeFirstHeaderIsDropped ==
  /\ (call.op = "parseIncidentText" /\ ret.done) =>
       LET lines == Split(call.arg, "\n")
       IN  /\ ~ret.value.thrown
           /\ ret.value.sections = parseIncidentText(FromFirstHeader(call.arg)).sections
           /\ FirstHeader(lines) > Len(lines) => ret.value.sections = EmptySections
  /\ (call.op = "generateMDX" /\ ret.done /\ ~HasDelimiterLine(call.arg)) =>
       LET alone == generateMDX(FromFirstHeader(call.arg), Undefined, Undefined, Undefined, NullObject, today)
       IN  /\ ~ret.value.thrown
           /\ WithoutFrontMatter(ret.value.mdx) = WithoutFrontMatter(alone.mdx)
           /\ ret.value.warnings = alone.warnings

\* the same for the texts without a line of the shape of a section marker
C29_ContentBeforeFirstHeaderIsDroppedWithoutMarkers ==
  /\ (call.op = "parseIncidentText" /\ ret.done /\ ~HasMarkerLine(Split(call.arg, "\n"))) =>
       LET lines == Split(call.arg, "\n")
       IN  /\ ~ret.value.thrown
           /\ ret.value.sections = parseIncidentText(FromFirstHeader(call.arg)).sections
           /\ FirstHeader(lines) > Len(lines) => ret.value.sections = EmptySections
  /\ (call.op = "generateMDX" /\ ret.done /\ ~HasDelimiterLine(call.arg)) =>
       LET alone == generateMDX(FromFirstHeader(call.arg), Undefined, Undefined, Undefined, NullObject, today)
       IN  /\ ~ret.value.thrown
           /\ WithoutFrontMatter(ret.value.mdx) = WithoutFrontMatter(alone.mdx)
           /\ ret.value.warnings = alone.warnings

(***************************************************************************)
(* C30: the sections parseMarkedText(preprocessRawText(text)) returns are  *)
(* those of one pass over the raw lines that switches section at the lines *)
(* detectSectionHeader recognizes, makes a table item of the blocks        *)
(* isTableLike accepts and a content item of every other non-empty line,   *)
(* a line of the text '[[SECTION:X]]', '[[TABLE]]' or '[[/TABLE]]'         *)
(* included.                                                               *)
(***************************************************************************)
\* the items the pass gives to section k from line i on; a line whose block
\* is rejected is an item by itself and the next line opens a block again
RECURSIVE DirectItems(_, _, _, _)
DirectItems(lines, i, active, k) ==
  IF i > Len(lines) THEN <<>>
  ELSE IF Len(Trim(lines[i])) = 0 THEN DirectItems(lines, i + 1, active, k)
  ELSE IF detectSectionHeader(lines[i]) # NoSection
    THEN DirectItems(lines, i + 1, detectSectionHeader(lines[i]), k)
  ELSE LET j == BlockEnd(lines, i)
           block == [n \in 1..(j - i) |-> Trim(lines[i + n - 1])]
       IN  IF isTableLike(block)
           THEN (IF active = k THEN <<linesToMarkdownTable(block)>> ELSE <<>>)
                \o DirectItems(lines, j, active, k)
           ELSE (IF active = k THEN <<Trim(lines[i])>> ELSE <<>>)
                \o DirectItems(lines, i + 1, active, k)

IsMarkerShaped(trimmed) ==
  IsSectionMarker(trimmed) \/ trimmed \in {<<"[","[","T","A","B","L","E","]","]">>, <<"[","[","/","T","A","B","L","E","]","]">>}

C30_PipelineIsTheDirectPass ==
  (call.op = "parseIncidentText" /\ ret.done) =>
    LET lines == Split(call.arg, "\n")
    IN  /\ ~ret.value.thrown
        /\ \A k \in SectionKeys : ret.value.sections[k] = DirectItems(lines, 1, NoSection, k)

\* the same for the texts without a line of the shape of a marker
C30_PipelineIsTheDirectPassWithoutMarkers ==
  (call.op = "parseIncidentText" /\ ret.done) =>
    LET lines == Split(call.arg, "\n")
    IN  (\A i \in 1..Len(lines) : ~IsMarkerShaped(Trim(lines[i]))) =>
          /\ ~ret.value.thrown
          /\ \A k \in SectionKeys : ret.value.sections[k] = DirectItems(lines, 1, NoSection, k)
====
